---- MODULE Spec2Model ----
(***************************************************************************)
(* SpaceTravel software renderer: the depth-tested framebuffer, the render *)
(* driver (render, render_orbit_lines) and the frame loop of main.         *)
(*                                                                         *)
(*   Spec          the frame loop of main: input, clear, draws, present    *)
(*   SpecDriver    render, render_orbit_lines and draw_line_on_framebuffer *)
(*                 called with any fragments                               *)
(*   SpecOrder     one set of writes issued in every order                 *)
(*   SpecConc      two writers sharing the framebuffer                     *)
(*   SpecAssembly  the vertex stage and the primitive assembly of render   *)
(*   SpecShader    fragment_shader called twice on the same arguments      *)
(*   SpecVertex    vertex_shader called on one vertex                      *)
(*   SpecRaster    one triangle rasterized and drawn                       *)
(*   SpecPack      a color packed and unpacked                             *)
(*   SpecLerp      lerp_color and blend_colors in f32 arithmetic           *)
(*   SpecMesh      the mesh generators called once                         *)
(*   SpecWarp      the warp animation of the camera; SpecWarpFair with     *)
(*                 update_warp called in every frame                       *)
(*   SpecOrbit     the orbit animation of the frame loop                   *)
(*   SpecRotate    Spaceship::rotate called repeatedly                     *)
(*   SpecShip      the flight of the ship; SpecShipFair with update        *)
(*                 called in every frame                                   *)
(*   SpecCollision check_collision and handle_collision on one body        *)
(*                                                                         *)
(* Scalars that are f32 in the program are fixed-point integers here, in   *)
(* units of 1/Scale unless a section names its own unit, except in         *)
(* SpecLerp, which rounds as f32 does.  Pixel coordinates and depths are   *)
(* integers.                                                               *)
(***************************************************************************)
EXTENDS Integers, Sequences, FiniteSets, TLC

(***************************************************************************)
(* Bounds of the model.                                                    *)
(***************************************************************************)
\* framebuffer size (main.rs:349-350 uses 600 x 450)
Width == 2
Height == 1
\* finite fragment depths are 1..MaxDepth
MaxDepth == 2
\* most fragments one render call processes
MaxFragments == 2
\* most writes in the order-independence experiment
MaxWrites == 3
\* longest vertex array handed to the primitive assembly
MaxVertices == 5
\* last value of uniforms.time a draw call is made with
MaxTime == 1
\* number of bodies of the scene that are drawn (RenderContext::new makes 4)
NumBodies == 1
\* number of orbit rings that are drawn (RenderContext::new makes 2)
NumOrbits == 1
\* most draw calls on one cleared framebuffer in the driver harness
MaxDraws == 1
\* most fragments one concurrent writer has
MaxWriterFragments == 1
\* width and height of the framebuffer a single triangle is rasterized on
RasterWidth == 3
RasterHeight == 3

\* fixed-point scale: 1.0 is Scale
Scale == 2 * 5

(***************************************************************************)
(* Color (color.rs): three 8-bit channels, packed as 0xRRGGBB.             *)
(***************************************************************************)
Min2(a, b) == IF a < b THEN a ELSE b
Max2(a, b) == IF a > b THEN a ELSE b
Clamp(v, lo, hi) == Max2(lo, Min2(v, hi))

Color_new(r, g, b) == [r |-> r, g |-> g, b |-> b]

\* Color::from_hex: (hex >> 16) & 0xFF, (hex >> 8) & 0xFF, hex & 0xFF
from_hex(hex) ==
    [r |-> (hex \div 65536) % 256, g |-> (hex \div 256) % 256, b |-> hex % 256]

\* Color::to_hex: (r << 16) | (g << 8) | b
to_hex(c) == c.r * 65536 + c.g * 256 + c.b

\* f32 -> u8 cast of a non-negative value v/Scale^k: truncate, saturate at 255
AsU8(num, den) == Clamp(num \div den, 0, 255)

\* Color * f32: every channel scaled by k/Scale, saturating
Color_mul(c, k) ==
    [r |-> AsU8(c.r * k, Scale), g |-> AsU8(c.g * k, Scale), b |-> AsU8(c.b * k, Scale)]

(***************************************************************************)
(* Arithmetic the shaders use, in fixed point.                             *)
(***************************************************************************)
Abs(v) == IF v < 0 THEN -v ELSE v

\* f32::sqrt of a sum of squares of fixed-point values: floor square root
Sqrt(n) == CHOOSE r \in 0..(n + 1) : r * r <= n /\ (r + 1) * (r + 1) > n

\* f32::sin, argument and result in fixed point (Bhaskara's approximation,
\* half period 31/10)
SinHalf(a) == (16 * a * (31 - a) * Scale) \div (5 * 961 - 4 * a * (31 - a))
Sin(a) == LET m == a % 62 IN IF m < 31 THEN SinHalf(m) ELSE -SinHalf(m - 31)

\* FastNoiseLite::get_noise_3d / get_noise_2d (external crate): a fixed
\* function of the sample coordinates with values in [-1.0, 1.0]
get_noise_3d(x, y, z) == ((3 * x + 5 * y + 7 * z) % (2 * Scale + 1)) - Scale
get_noise_2d(x, y) == ((3 * x + 5 * y) % (2 * Scale + 1)) - Scale

(***************************************************************************)
(* shaders.rs: color utilities.                                            *)
(***************************************************************************)
lerp_color(a, b, t0) ==
    LET t == Clamp(t0, 0, Scale)
        a_hex == to_hex(a)
        b_hex == to_hex(b)
        r1 == (a_hex \div 65536) % 256
        g1 == (a_hex \div 256) % 256
        b1 == a_hex % 256
        r2 == (b_hex \div 65536) % 256
        g2 == (b_hex \div 256) % 256
        b2 == b_hex % 256
    IN  Color_new(AsU8(r1 * (Scale - t) + r2 * t, Scale),
                  AsU8(g1 * (Scale - t) + g2 * t, Scale),
                  AsU8(b1 * (Scale - t) + b2 * t, Scale))

blend_colors(base, overlay, factor0) ==
    LET factor == Clamp(factor0, 0, Scale)
        base_hex == to_hex(base)
        overlay_hex == to_hex(overlay)
        r1 == (base_hex \div 65536) % 256
        g1 == (base_hex \div 256) % 256
        b1 == base_hex % 256
        r2 == (overlay_hex \div 65536) % 256
        g2 == (overlay_hex \div 256) % 256
        b2 == overlay_hex % 256
    IN  Color_new(AsU8(r1 * (Scale - factor) + r2 * factor, Scale),
                  AsU8(g1 * (Scale - factor) + g2 * factor, Scale),
                  AsU8(b1 * (Scale - factor) + b2 * factor, Scale))

(***************************************************************************)
(* shaders.rs: the material shaders.  A fragment is a record               *)
(*   [position |-> [x, y], depth, vertex_position |-> [x, y, z], intensity]*)
(* and uniforms carries the scalar time.                                   *)
(***************************************************************************)
sun_shader(fragment, uniforms) ==
    LET position == fragment.vertex_position
        time == uniforms.time
        distance_from_center ==
            Sqrt(position.x * position.x + position.y * position.y
                 + position.z * position.z)
        core_color == from_hex(16775885)   \* 0xFFFACD
        mid_color == from_hex(16766720)    \* 0xFFD700
        edge_color == from_hex(16747520)   \* 0xFF8C00
        base_color ==
            IF distance_from_center < 5
            THEN lerp_color(core_color, mid_color, distance_from_center * 2)
            ELSE lerp_color(mid_color, edge_color, (distance_from_center - 5) * 2)
        plasma_noise ==
            get_noise_3d(position.x * 8 + (time * 3) \div Scale,
                         position.y * 8,
                         position.z * 8 + (time * 15) \div (Scale * Scale))
        plasma_intensity == (plasma_noise + Scale) \div 2
        plasma_color == from_hex(16755200) \* 0xFFAA00
        with_plasma ==
            blend_colors(base_color, plasma_color, (plasma_intensity * 3) \div Scale)
        spot_noise ==
            get_noise_3d(position.x * 3, position.y * 3 + time \div Scale,
                         position.z * 3)
        spot_factor == (spot_noise - 5) * 2
        dark_spot == from_hex(10044416)    \* 0x994400
        with_spots == blend_colors(with_plasma, dark_spot, (spot_factor * 4) \div Scale)
        e == Scale - distance_from_center
        edge_glow == (e * e * e) \div (Scale * Scale)
        glow_color == from_hex(16777130)   \* 0xFFFFAA
    IN  IF spot_noise > 5
        THEN blend_colors(with_spots, glow_color, (edge_glow * 3) \div Scale)
        ELSE with_plasma

rocky_planet_shader(fragment, uniforms) ==
    LET position == fragment.vertex_position
        time == uniforms.time
        terrain_noise == get_noise_3d(position.x * 4, position.y * 4, position.z * 4)
        base_noise == Abs(terrain_noise)
        terrain_roughness == (base_noise * 7) \div Scale + 3
        rust_red == from_hex(11674146)     \* 0xB22222
        mars_dust == from_hex(13468991)    \* 0xCD853F
        iron_oxide == from_hex(9127187)    \* 0x8B4513
        base0 ==
            IF terrain_roughness > 6
            THEN blend_colors(rust_red, iron_oxide,
                              ((terrain_roughness - 6) * Scale) \div 4)
            ELSE blend_colors(mars_dust, rust_red, (terrain_roughness * Scale) \div 6)
        detail_noise ==
            get_noise_3d(position.x * 10 + 100 * Scale, position.y * 10,
                         position.z * 10)
        detail_color ==
            IF detail_noise > 3 THEN from_hex(16032864)  \* 0xF4A460
                                ELSE from_hex(10506797)  \* 0xA0522D
        base1 == blend_colors(base0, detail_color, (Abs(detail_noise) * 4) \div Scale)
        dust_noise ==
            get_noise_3d(position.x * 8 + time \div Scale, position.y * 8,
                         position.z * 8 + (time * 3) \div (Scale * Scale))
        dust_factor == ((dust_noise - 6) * Scale) \div 4
        dust_color == from_hex(13789470)   \* 0xD2691E
        base2 ==
            IF dust_noise > 6
            THEN blend_colors(base1, dust_color, (dust_factor * 3) \div Scale)
            ELSE base1
        light_intensity == (fragment.intensity * 7) \div Scale + 3
    IN  Color_mul(base2, light_intensity)

gas_giant_shader(fragment, uniforms) ==
    LET position == fragment.vertex_position
        time == uniforms.time
        band_position == position.y * 15
        color1 == from_hex(13935988)       \* 0xd4a574
        color2 == from_hex(12681034)       \* 0xc17f4a
        color3 == from_hex(9134649)        \* 0x8b6239
        color4 == from_hex(15124904)       \* 0xe6c9a8
        band_value == (Sin(band_position) + Scale) \div 2
        \* thresholds 0.25, 0.5, 0.75 compared on the scale 4 * Scale
        bv4 == 4 * band_value
        base_color ==
            IF bv4 < Scale THEN lerp_color(color1, color2, bv4)
            ELSE IF bv4 < 2 * Scale THEN lerp_color(color2, color3, bv4 - Scale)
            ELSE IF bv4 < 3 * Scale THEN lerp_color(color3, color4, bv4 - 2 * Scale)
            ELSE lerp_color(color4, color1, bv4 - 3 * Scale)
        turbulence_noise ==
            get_noise_3d(position.x * 8 + (time * 3) \div Scale, position.y * 4,
                         position.z * 8)
        turbulent_offset == (turbulence_noise * 3) \div Scale
        turbulent_band == (Sin(band_position + turbulent_offset) + Scale) \div 2
        turbulence_color ==
            IF turbulent_band > 6 THEN from_hex(10516570)   \* 0xa0785a
                                  ELSE from_hex(15258808)   \* 0xe8d4b8
        with_turbulence ==
            blend_colors(base_color, turbulence_color,
                         (Abs(turbulence_noise) * 4) \div Scale)
        dx == position.x - 3
        dy == position.y - 2
        distance_to_spot == Sqrt(dx * dx + dy * dy)
        spot_noise ==
            get_noise_3d(position.x * 5 + (time * 5) \div (Scale * Scale),
                         position.y * 5, position.z * 5)
        spot_factor ==
            ((Scale - (distance_to_spot * Scale) \div 3) * ((spot_noise + Scale) \div 2))
                \div Scale
        spot_color == from_hex(13059136)   \* 0xc74440
        with_spot == blend_colors(with_turbulence, spot_color, (spot_factor * 7) \div Scale)
        detail_noise ==
            get_noise_3d(position.x * 20 - (time * 2) \div Scale, position.y * 20,
                         position.z * 20)
        detail_color == from_hex(16115411) \* 0xf5e6d3
        final_color ==
            blend_colors(with_spot, detail_color, (Abs(detail_noise) * 2) \div Scale)
        light == (fragment.intensity * 7) \div Scale + 3
    IN  IF distance_to_spot < 3
        THEN Color_mul(final_color, light)
        ELSE Color_mul(with_turbulence, light)

moon_shader(fragment, uniforms) ==
    LET position == fragment.vertex_position
        base_color == from_hex(10197915)   \* 0x9b9b9b
        dark_color == from_hex(7039851)    \* 0x6b6b6b
        light_color == from_hex(12961221)  \* 0xc5c5c5
        terrain_noise == get_noise_3d(position.x * 8, position.y * 8, position.z * 8)
        terrain_color ==
            IF terrain_noise > 0
            THEN lerp_color(base_color, light_color, terrain_noise)
            ELSE lerp_color(base_color, dark_color, -terrain_noise)
        crater_noise ==
            get_noise_3d(position.x * 10 + 500 * Scale, position.y * 10,
                         position.z * 10)
        crater_depth == ((crater_noise - 7) * Scale) \div 3
        crater_color == from_hex(4868682)  \* 0x4a4a4a
        final0 ==
            IF crater_noise > 7
            THEN blend_colors(terrain_color, crater_color, (crater_depth * 8) \div Scale)
            ELSE terrain_color
        detail_noise == get_noise_3d(position.x * 25, position.y * 25, position.z * 25)
        detail_color == from_hex(11579568) \* 0xb0b0b0
        final1 ==
            blend_colors(final0, detail_color, (Abs(detail_noise) * 15) \div (Scale * Scale))
        light_intensity == (fragment.intensity * 6) \div Scale + 4
    IN  Color_mul(final1, light_intensity)

rings_shader(fragment, uniforms) ==
    LET position == fragment.vertex_position
        time == uniforms.time
        \* distance_from_center compared through its square: 1.1^2 and 1.4^2
        d2 == position.x * position.x + position.z * position.z
        distance_from_center == Sqrt(d2)
        ring_position == distance_from_center * 30
        s == (Sin(ring_position) \div 2) + Scale \div 2
        ring_pattern == (s * s) \div Scale
        ice_noise ==
            get_noise_3d(position.x * 50 + time \div Scale, position.y * 50,
                         position.z * 50 - time \div Scale)
        rock_noise ==
            get_noise_3d(position.x * 20 - (time * 5) \div (Scale * Scale),
                         position.y * 20,
                         position.z * 20 + (time * 5) \div (Scale * Scale))
        ice_color == from_hex(15135743)    \* 0xE6F3FF
        rock_color == from_hex(9139029)    \* 0x8B7355
        dust_color == from_hex(13808780)   \* 0xD2B48C
        base_color ==
            IF ice_noise > 3
            THEN lerp_color(dust_color, ice_color, ((ice_noise - 3) * Scale) \div 7)
            ELSE IF rock_noise > 1
            THEN lerp_color(dust_color, rock_color, ((rock_noise - 1) * Scale) \div 9)
            ELSE dust_color
        density_noise ==
            get_noise_2d(distance_from_center * 8, (time * 2) \div (Scale * Scale))
        density_factor == (density_noise + Scale) \div 2
        final_alpha == (ring_pattern * density_factor) \div Scale
        space_color == from_hex(17)        \* 0x000011
    IN  IF d2 * 100 < 121 * Scale * Scale \/ d2 * 100 > 196 * Scale * Scale
        THEN from_hex(0)
        ELSE IF ring_pattern < 4
        THEN from_hex(0)
        ELSE IF final_alpha < 3
        THEN from_hex(0)
        ELSE blend_colors(space_color, base_color, final_alpha \div 2)

starfield_shader(fragment, uniforms) == from_hex(0)

ship_shader(fragment, uniforms) ==
    LET position == fragment.vertex_position
        time == uniforms.time
        base_metal == from_hex(8425632)    \* 0x8090A0
        highlight == from_hex(11583696)    \* 0xB0C0D0
        shadow == from_hex(5267568)        \* 0x506070
        metallic_noise ==
            get_noise_3d(position.x * 20, position.y * 20, position.z * 20)
        metal_factor == (metallic_noise + Scale) \div 2
        hull_color ==
            IF metal_factor > 7
            THEN lerp_color(base_metal, highlight, ((metal_factor - 7) * Scale) \div 3)
            ELSE IF metal_factor < 3
            THEN lerp_color(shadow, base_metal, (metal_factor * Scale) \div 3)
            ELSE base_metal
        pulse == (Sin(time * 4) + Scale) \div 2
        engine_glow == from_hex(43775)     \* 0x00AAFF
    IN  IF position.z < -2 /\ pulse > 6
        THEN blend_colors(hull_color, engine_glow, ((pulse - 6) * 25) \div Scale)
        ELSE hull_color

\* celestial_body.rs: enum ShaderType
ShaderType ==
    {"Sun", "RockyPlanet", "GasGiant", "Moon", "RingedPlanet", "Starfield", "Ship"}

\* shaders.rs: fragment shader dispatcher
fragment_shader(fragment, uniforms, shader_type) ==
    CASE shader_type = "Sun" -> sun_shader(fragment, uniforms)
      [] shader_type = "RockyPlanet" -> rocky_planet_shader(fragment, uniforms)
      [] shader_type = "GasGiant" -> gas_giant_shader(fragment, uniforms)
      [] shader_type = "Moon" -> moon_shader(fragment, uniforms)
      [] shader_type = "RingedPlanet" -> rings_shader(fragment, uniforms)
      [] shader_type = "Starfield" -> starfield_shader(fragment, uniforms)
      [] shader_type = "Ship" -> ship_shader(fragment, uniforms)

(***************************************************************************)
(* Framebuffer (framebuffer.rs): width, height, the color buffer, the      *)
(* depth buffer, the background color and the current draw color.          *)
(* Pixel (x, y) is entry y * width + x of both buffers.                    *)
(***************************************************************************)
\* the far sentinel of the depth buffer: farther than every finite depth
Infinity == MaxDepth + 1
Depths == 1..MaxDepth

Pixels(fb) == 0..(fb.width * fb.height - 1)

Framebuffer_new(width, height) ==
    [width |-> width, height |-> height,
     buffer |-> [i \in 0..(width * height - 1) |-> 0],
     zbuffer |-> [i \in 0..(width * height - 1) |-> Infinity],
     background_color |-> 0,
     current_color |-> 16777215]

clear(fb) ==
    [fb EXCEPT !.buffer = [i \in Pixels(fb) |-> fb.background_color],
               !.zbuffer = [i \in Pixels(fb) |-> Infinity]]

set_background_color(fb, color) == [fb EXCEPT !.background_color = color]

set_current_color(fb, color) == [fb EXCEPT !.current_color = color]

\* point without the depth test: the last write to a pixel is kept
point_untested(fb, x, y, depth) ==
    LET index == y * fb.width + x
    IN  IF index \in Pixels(fb)
        THEN [fb EXCEPT !.buffer[index] = fb.current_color,
                        !.zbuffer[index] = depth]
        ELSE fb

\* the depth-tested write; x < width and y < height is the caller's duty,
\* an index past the end of the buffers writes nothing
point(fb, x, y, depth) ==
    LET index == y * fb.width + x
    IN  IF index \in Pixels(fb) /\ depth < fb.zbuffer[index]
        THEN [fb EXCEPT !.buffer[index] = fb.current_color,
                        !.zbuffer[index] = depth]
        ELSE fb

(***************************************************************************)
(* main.rs: the fragment processing stage of render and of                 *)
(* render_orbit_lines.                                                     *)
(***************************************************************************)
\* `f32 as usize`: truncates, and saturates a negative value to 0
AsUsize(v) == IF v < 0 THEN 0 ELSE v

\* InBounds with the comparisons made inclusive
InBounds_inclusive(fb, x, y) == x <= fb.width /\ y <= fb.height

\* the bounds check both drivers make before the point write
InBounds(fb, x, y) == x < fb.width /\ y < fb.height

\* the color render hands to set_current_color for a fragment
ShadedColor(fragment, uniforms, shader_type) ==
    to_hex(fragment_shader(fragment, uniforms, shader_type))

\* RenderFragment handing point its coordinates as (y, x)
RenderFragment_transposed(fb, fragment, uniforms, shader_type) ==
    LET x == AsUsize(fragment.position.x)
        y == AsUsize(fragment.position.y)
    IN  IF InBounds(fb, x, y)
        THEN point(set_current_color(fb, ShadedColor(fragment, uniforms, shader_type)),
                   y, x, fragment.depth)
        ELSE fb

\* RenderFragment storing the shaded color itself, without the point call
RenderFragment_direct(fb, fragment, uniforms, shader_type) ==
    LET x == AsUsize(fragment.position.x)
        y == AsUsize(fragment.position.y)
    IN  IF InBounds(fb, x, y)
        THEN [fb EXCEPT !.buffer[y * fb.width + x] =
                            ShadedColor(fragment, uniforms, shader_type)]
        ELSE fb

\* RenderFragment setting the current color after the point call
RenderFragment_late(fb, fragment, uniforms, shader_type) ==
    LET x == AsUsize(fragment.position.x)
        y == AsUsize(fragment.position.y)
    IN  IF InBounds(fb, x, y)
        THEN set_current_color(point(fb, x, y, fragment.depth),
                               ShadedColor(fragment, uniforms, shader_type))
        ELSE fb

\* one iteration of render's loop over the fragments
RenderFragment(fb, fragment, uniforms, shader_type) ==
    LET x == AsUsize(fragment.position.x)
        y == AsUsize(fragment.position.y)
    IN  IF InBounds(fb, x, y)
        THEN point(set_current_color(fb, ShadedColor(fragment, uniforms, shader_type)),
                   x, y, fragment.depth)
        ELSE fb

\* the color render_orbit_lines draws with: every channel at half brightness
OrbitColor(color) ==
    LET r == (color \div 65536) % 256
        g == (color \div 256) % 256
        b == color % 256
        final_r == AsU8(Min2(r * 5, 255 * Scale), Scale)
        final_g == AsU8(Min2(g * 5, 255 * Scale), Scale)
        final_b == AsU8(Min2(b * 5, 255 * Scale), Scale)
    IN  final_r * 65536 + final_g * 256 + final_b

\* one iteration of render_orbit_lines' loop over the fragments
OrbitFragment(fb, fragment, color) ==
    LET x == AsUsize(fragment.position.x)
        y == AsUsize(fragment.position.y)
    IN  IF InBounds(fb, x, y)
        THEN point(set_current_color(fb, OrbitColor(color)), x, y, fragment.depth)
        ELSE fb

(***************************************************************************)
(* State.                                                                  *)
(***************************************************************************)
VARIABLES
    framebuffer,    \* the Framebuffer the drivers write to
    pc,             \* position of main in its frame loop
    body_index,     \* position of the loop over context.bodies (1-based)
    orbit_index,    \* position of the loop over context.orbits (1-based)
    call,           \* the render / render_orbit_lines call in progress
    show_orbits,    \* main's flag of the same name
    draws,          \* draw calls made since the last clear
    point_call,     \* the point call the last step issued, if it issued one
    frame_log,      \* stale: pixels whose entries an earlier frame set;
                    \* colors: the colors point was called with this frame
    writes,         \* the (pixel, depth, color) writes handed out at the start
    pending,        \* the writes not issued yet
    writers,        \* the concurrent writers: fragments, position, phase
    vertex_array,   \* the mesh handed to render
    uniforms,       \* the uniforms handed to render
    triangles,      \* render's local of the same name
    given,          \* the arguments a function under test was first given
    args,           \* the same arguments as the caller holds them now
    results         \* the values the function under test has returned

vars == <<framebuffer, pc, body_index, orbit_index, call, show_orbits, draws,
          point_call, frame_log, writes, pending, writers, vertex_array, uniforms,
          triangles, given, args, results>>

NoCall == [fn |-> "none"]

\* main.rs:365
BACKGROUND == 17

\* values of fragment.vertex_position the rasterizer hands over
VertexPositions == {[x |-> 0, y |-> 0, z |-> 0], [x |-> 12, y |-> 2, z |-> -3]}

\* the fragments a draw call may have to process: the rasterizer is handed
\* no framebuffer, so positions one pixel outside it on every side occur
FragmentsAt(vertex_positions) ==
    [position : [x : (-1)..Width, y : (-1)..Height],
     depth : Depths,
     vertex_position : vertex_positions,
     intensity : {Scale}]

Fragments == FragmentsAt(VertexPositions)

\* the fragments of the frame loop: one sample point per mesh
FrameFragments == FragmentsAt({[x |-> 12, y |-> 2, z |-> -3]})

\* RenderContext::new: Sun, rocky planet, moon, gas giant
AllBodies ==
    << [shader_type |-> "Sun", time |-> 0],
       [shader_type |-> "RockyPlanet", time |-> 0],
       [shader_type |-> "Moon", time |-> 0],
       [shader_type |-> "GasGiant", time |-> 0] >>

Bodies == SubSeq(AllBodies, 1, Min2(NumBodies, Len(AllBodies)))

\* main.rs:76 and main.rs:100: both orbit rings are white
OrbitRingColor == 16777215

AllPixels == 0..(Width * Height - 1)

\* the parts of the state a specification does not use
IdleFrame ==
    /\ body_index = 1
    /\ orbit_index = 1
    /\ show_orbits = TRUE

IdleWrites ==
    /\ writes = {}
    /\ pending = {}
    /\ writers = <<>>

IdleAssembly ==
    /\ vertex_array = <<>>
    /\ uniforms = [time |-> 0]
    /\ triangles = <<>>

IdleCalls ==
    /\ given = <<>>
    /\ args = <<>>
    /\ results = <<>>

\* main up to the first iteration of its loop
Init ==
    /\ framebuffer = set_background_color(Framebuffer_new(Width, Height), BACKGROUND)
    /\ pc = "input"
    /\ call = NoCall
    /\ draws = 0
    /\ point_call = NoCall
    /\ frame_log = [stale |-> AllPixels, colors |-> {}]
    /\ IdleFrame
    /\ IdleWrites
    /\ IdleAssembly
    /\ IdleCalls

(***************************************************************************)
(* The fragment loops of render and render_orbit_lines, one iteration per  *)
(* step.  The fragment list is the rasterizer's output; the model draws    *)
(* each element when the loop reaches it and keeps the number left.        *)
(***************************************************************************)
BeginCall(fn, shader_type, u, color) ==
    /\ \E n \in 0..MaxFragments :
          call' = IF n = 0 THEN NoCall
                  ELSE [fn |-> fn, shader_type |-> shader_type, uniforms |-> u,
                        color |-> color, pending |-> n]
    /\ point_call' = NoCall

\* the point call one loop iteration issues for a fragment, if it issues one
IssuedPoint(fb, fragment) ==
    LET x == AsUsize(fragment.position.x)
        y == AsUsize(fragment.position.y)
    IN  IF InBounds(fb, x, y)
        THEN [fn |-> "point", x |-> x, y |-> y, depth |-> fragment.depth,
              position |-> fragment.position, fragment |-> fragment]
        ELSE [fn |-> "dropped", position |-> fragment.position,
              fragment |-> fragment]

\* the loop moves on to its next fragment, or the call returns
Advance ==
    call' = IF call.pending = 1 THEN NoCall ELSE [call EXCEPT !.pending = @ - 1]

\* pixels whose color and depth entries a step leaves as an earlier frame set them
StillStale(fb) ==
    {i \in frame_log.stale : /\ i \in DOMAIN fb.buffer
                   /\ fb.buffer[i] = framebuffer.buffer[i]
                   /\ fb.zbuffer[i] = framebuffer.zbuffer[i]}

\* the frame log after a step of a draw path
Logged(fb, pcall) ==
    [stale |-> StillStale(fb),
     colors |-> IF pcall.fn = "point"
                THEN frame_log.colors \cup {fb.current_color}
                ELSE frame_log.colors]

RenderLoop(fragments) ==
    /\ call # NoCall
    /\ call.fn = "render"
    /\ \E f \in fragments :
          /\ framebuffer' = RenderFragment(framebuffer, f, call.uniforms,
                                           call.shader_type)
          /\ point_call' = IssuedPoint(framebuffer, f)
    /\ frame_log' = Logged(framebuffer', point_call')
    /\ Advance

OrbitLoop(fragments) ==
    /\ call # NoCall
    /\ call.fn = "render_orbit_lines"
    /\ \E f \in fragments :
          /\ framebuffer' = OrbitFragment(framebuffer, f, call.color)
          /\ point_call' = IssuedPoint(framebuffer, f)
    /\ frame_log' = Logged(framebuffer', point_call')
    /\ Advance

(***************************************************************************)
(* The frame loop of main.                                                 *)
(***************************************************************************)
\* the window was closed or Escape is down
Exit ==
    /\ pc = "input"
    /\ pc' = "done"
    /\ UNCHANGED <<framebuffer, body_index, orbit_index, call, show_orbits,
                   draws, point_call, frame_log, writes, pending, writers,
                   vertex_array, uniforms, triangles,
                   given, args, results>>

\* handle_input: O toggles the orbit lines
handle_input ==
    /\ pc = "input"
    /\ \E o \in BOOLEAN : show_orbits' = IF o THEN ~show_orbits ELSE show_orbits
    /\ pc' = "clear"
    /\ UNCHANGED <<framebuffer, body_index, orbit_index, call, draws,
                   point_call, frame_log, writes, pending, writers, vertex_array,
                   uniforms, triangles,
                   given, args, results>>

\* ClearFrame without the clear
ClearFrame_skipped ==
    /\ pc = "clear"
    /\ framebuffer' = framebuffer
    /\ pc' = "bodies"
    /\ body_index' = 1
    /\ point_call' = [fn |-> "clear"]
    /\ frame_log' = [frame_log EXCEPT !.stale = StillStale(framebuffer')]
    /\ UNCHANGED <<orbit_index, call, show_orbits, draws, writes, pending,
                   writers, vertex_array, uniforms, triangles,
                   given, args, results>>

\* context.framebuffer.clear()
ClearFrame ==
    /\ pc = "clear"
    /\ framebuffer' = clear(framebuffer)
    /\ pc' = "bodies"
    /\ body_index' = 1
    /\ point_call' = [fn |-> "clear"]
    /\ frame_log' =
          [stale |-> {i \in StillStale(framebuffer') :
                        ~ (/\ framebuffer'.buffer[i] = framebuffer'.background_color
                           /\ framebuffer'.zbuffer[i] = Infinity)},
           colors |-> frame_log.colors]
    /\ UNCHANGED <<orbit_index, call, show_orbits, draws, writes, pending,
                   writers, vertex_array, uniforms, triangles,
                   given, args, results>>

\* the body is farther than 50 from the camera: skipped
CullBody ==
    /\ pc = "bodies"
    /\ call = NoCall
    /\ body_index <= Len(Bodies)
    /\ body_index' = body_index + 1
    /\ UNCHANGED <<framebuffer, pc, orbit_index, call, show_orbits, draws,
                   point_call, frame_log, writes, pending, writers, vertex_array,
                   uniforms, triangles,
                   given, args, results>>

RenderBody ==
    /\ pc = "bodies"
    /\ call = NoCall
    /\ body_index <= Len(Bodies)
    /\ BeginCall("render", Bodies[body_index].shader_type,
                 [time |-> Bodies[body_index].time], 0)
    /\ body_index' = body_index + 1
    /\ UNCHANGED <<framebuffer, pc, orbit_index, show_orbits, draws, frame_log,
                   writes, pending, writers, vertex_array, uniforms, triangles,
                   given, args, results>>

RenderShip ==
    /\ pc = "bodies"
    /\ call = NoCall
    /\ body_index > Len(Bodies)
    /\ BeginCall("render", "Ship", [time |-> 0], 0)
    /\ pc' = "orbits"
    /\ orbit_index' = 1
    /\ UNCHANGED <<framebuffer, body_index, show_orbits, draws, frame_log, writes,
                   pending, writers, vertex_array, uniforms, triangles,
                   given, args, results>>

RenderOrbit ==
    /\ pc = "orbits"
    /\ call = NoCall
    /\ show_orbits
    /\ orbit_index <= NumOrbits
    /\ BeginCall("render_orbit_lines", "none", [time |-> 0], OrbitRingColor)
    /\ orbit_index' = orbit_index + 1
    /\ UNCHANGED <<framebuffer, pc, body_index, show_orbits, draws, frame_log,
                   writes, pending, writers, vertex_array, uniforms, triangles,
                   given, args, results>>

FrameRenderStep ==
    /\ pc \in {"bodies", "orbits"}
    /\ RenderLoop(FrameFragments)
    /\ UNCHANGED <<pc, body_index, orbit_index, show_orbits, draws, writes,
                   pending, writers, vertex_array, uniforms, triangles,
                   given, args, results>>

FrameOrbitStep ==
    /\ pc = "orbits"
    /\ OrbitLoop(FrameFragments)
    /\ UNCHANGED <<pc, body_index, orbit_index, show_orbits, draws, writes,
                   pending, writers, vertex_array, uniforms, triangles,
                   given, args, results>>

\* window.update_with_buffer(&context.framebuffer.buffer, ...)
Present ==
    /\ pc = "orbits"
    /\ call = NoCall
    /\ ~show_orbits \/ orbit_index > NumOrbits
    /\ pc' = "present"
    /\ point_call' = [fn |-> "present"]
    /\ UNCHANGED <<framebuffer, body_index, orbit_index, call, show_orbits,
                   draws, frame_log, writes, pending, writers, vertex_array,
                   uniforms, triangles,
                   given, args, results>>

\* NextFrame with the loop's back edge placed after the clear
NextFrame_after_clear ==
    /\ pc = "present"
    /\ pc' = "bodies"
    /\ body_index' = 1
    /\ frame_log' = [stale |-> AllPixels, colors |-> {}]
    /\ point_call' = NoCall
    /\ UNCHANGED <<framebuffer, orbit_index, call, show_orbits, draws, writes,
                   pending, writers, vertex_array, uniforms, triangles,
                   given, args, results>>

\* thread::sleep(frame_delay), then the next iteration
NextFrame ==
    /\ pc = "present"
    /\ pc' = "input"
    /\ frame_log' = [stale |-> AllPixels, colors |-> {}]
    /\ point_call' = NoCall
    /\ UNCHANGED <<framebuffer, body_index, orbit_index, call, show_orbits,
                   draws, writes, pending, writers, vertex_array, uniforms,
                   triangles,
                   given, args, results>>

Next ==
    \/ Exit
    \/ handle_input
    \/ ClearFrame
    \/ CullBody
    \/ RenderBody
    \/ RenderShip
    \/ RenderOrbit
    \/ FrameRenderStep
    \/ FrameOrbitStep
    \/ Present
    \/ NextFrame

Spec == Init /\ [][Next]_vars

(***************************************************************************)
(* The drivers called on their own: render, render_orbit_lines and         *)
(* draw_line_on_framebuffer (main_backup.rs) with any arguments, on a      *)
(* framebuffer that is cleared between groups of MaxDraws calls.           *)
(***************************************************************************)
InitDriver ==
    /\ framebuffer =
          clear(set_background_color(Framebuffer_new(Width, Height), BACKGROUND))
    /\ pc = "driver"
    /\ call = NoCall
    /\ draws = 0
    /\ point_call = NoCall
    /\ frame_log = [stale |-> {}, colors |-> {}]
    /\ IdleFrame
    /\ IdleWrites
    /\ IdleAssembly
    /\ IdleCalls

CallClear ==
    /\ pc = "driver"
    /\ call = NoCall
    /\ draws > 0
    /\ framebuffer' = clear(framebuffer)
    /\ draws' = 0
    /\ point_call' = [fn |-> "clear"]
    /\ frame_log' = [stale |-> {}, colors |-> {}]
    /\ UNCHANGED <<pc, body_index, orbit_index, call, show_orbits, writes,
                   pending, writers, vertex_array, uniforms, triangles,
                   given, args, results>>

CallRender ==
    /\ pc = "driver"
    /\ call = NoCall
    /\ draws < MaxDraws
    /\ \E shader_type \in ShaderType, t \in 0..MaxTime :
          BeginCall("render", shader_type, [time |-> t * Scale], 0)
    /\ draws' = draws + 1
    /\ UNCHANGED <<framebuffer, pc, body_index, orbit_index, show_orbits,
                   frame_log, writes, pending, writers, vertex_array, uniforms,
                   triangles,
                   given, args, results>>

CallRenderOrbitLines ==
    /\ pc = "driver"
    /\ call = NoCall
    /\ draws < MaxDraws
    /\ \E color \in {OrbitRingColor, 4210816} :
          BeginCall("render_orbit_lines", "none", [time |-> 0], color)
    /\ draws' = draws + 1
    /\ UNCHANGED <<framebuffer, pc, body_index, orbit_index, show_orbits,
                   frame_log, writes, pending, writers, vertex_array, uniforms,
                   triangles,
                   given, args, results>>

DriverRenderStep ==
    /\ pc = "driver"
    /\ RenderLoop(Fragments)
    /\ UNCHANGED <<pc, body_index, orbit_index, show_orbits, draws, writes,
                   pending, writers, vertex_array, uniforms, triangles,
                   given, args, results>>

DriverOrbitStep ==
    /\ pc = "driver"
    /\ OrbitLoop(Fragments)
    /\ UNCHANGED <<pc, body_index, orbit_index, show_orbits, draws, writes,
                   pending, writers, vertex_array, uniforms, triangles,
                   given, args, results>>

\* Sign(x0 < x1): the step of Bresenham's walk along one axis
LineDir(a0, a1) == IF a0 < a1 THEN 1 ELSE -1

\* entry of draw_line_on_framebuffer(start, end) up to its loop
CallDrawLine ==
    /\ pc = "driver"
    /\ call = NoCall
    /\ draws < MaxDraws
    /\ \E x0 \in (-1)..Width, y0 \in (-1)..Height,
          x1 \in (-1)..Width, y1 \in (-1)..Height, z \in Depths :
          LET dx == Abs(x1 - x0)
              dy == -Abs(y1 - y0)
          IN  call' = [fn |-> "draw_line", x |-> x0, y |-> y0, x1 |-> x1,
                       y1 |-> y1, dx |-> dx, dy |-> dy,
                       sx |-> LineDir(x0, x1), sy |-> LineDir(y0, y1),
                       err |-> dx + dy, z |-> z]
    /\ framebuffer' = set_current_color(framebuffer, 4210816)
    /\ point_call' = NoCall
    /\ draws' = draws + 1
    /\ UNCHANGED <<pc, body_index, orbit_index, show_orbits, frame_log, writes,
                   pending, writers, vertex_array, uniforms, triangles,
                   given, args, results>>

\* one iteration of the loop of draw_line_on_framebuffer
LineStep ==
    /\ pc = "driver"
    /\ call # NoCall
    /\ call.fn = "draw_line"
    /\ LET inside == /\ call.x >= 0 /\ call.x < framebuffer.width
                     /\ call.y >= 0 /\ call.y < framebuffer.height
           e2 == 2 * call.err
           step_x == e2 >= call.dy
           step_y == e2 <= call.dx
           arrived == call.x = call.x1 /\ call.y = call.y1
           break_x == step_x /\ call.x = call.x1
           break_y == step_y /\ call.y = call.y1
           err1 == IF step_x THEN call.err + call.dy ELSE call.err
       IN  /\ framebuffer' = IF inside
                             THEN point(framebuffer, call.x, call.y, call.z)
                             ELSE framebuffer
           /\ point_call' =
                 IF inside
                 THEN [fn |-> "point", x |-> call.x, y |-> call.y, depth |-> call.z,
                       position |-> [x |-> call.x, y |-> call.y]]
                 ELSE [fn |-> "dropped", position |-> [x |-> call.x, y |-> call.y]]
           /\ call' = IF arrived \/ break_x \/ break_y
                      THEN NoCall
                      ELSE [call EXCEPT
                              !.x = IF step_x THEN @ + call.sx ELSE @,
                              !.y = IF step_y THEN @ + call.sy ELSE @,
                              !.err = IF step_y THEN err1 + call.dx ELSE err1]
    /\ frame_log' = Logged(framebuffer', point_call')
    /\ UNCHANGED <<pc, body_index, orbit_index, show_orbits, draws, writes,
                   pending, writers, vertex_array, uniforms, triangles,
                   given, args, results>>

NextDriver ==
    \/ CallClear
    \/ CallRender
    \/ CallRenderOrbitLines
    \/ CallDrawLine
    \/ DriverRenderStep
    \/ DriverOrbitStep
    \/ LineStep

SpecDriver == InitDriver /\ [][NextDriver]_vars

(***************************************************************************)
(* The per-fragment write of render (set_current_color, then point) issued *)
(* for a set of writes in every order, on a freshly cleared framebuffer.   *)
(***************************************************************************)
\* the (pixel, depth, color) writes: in-range pixels, finite depths
WriteColors == {16711680, 255}

Writes ==
    [x : 0..(Width - 1), y : 0..(Height - 1), depth : Depths, color : WriteColors]

\* framebuffer.set_current_color(color) of one write
WriterSetColor(fb, w) == set_current_color(fb, w.color)

\* WriterPoint handing point its coordinates as (y, x)
WriterPoint_transposed(fb, w) == point(fb, w.y, w.x, w.depth)

\* framebuffer.point(x, y, fragment.depth) of one write
WriterPoint(fb, w) == point(fb, w.x, w.y, w.depth)

\* Write with the two calls in the opposite order
Write_late(fb, w) == WriterSetColor(WriterPoint(fb, w), w)

\* what render does for one fragment: set the color register, then point
Write(fb, w) == WriterPoint(WriterSetColor(fb, w), w)

SeqsUpTo(S, n) == UNION {[1..k -> S] : k \in 0..n}

Range(f) == {f[i] : i \in DOMAIN f}

FreshFramebuffer ==
    clear(set_background_color(Framebuffer_new(Width, Height), BACKGROUND))

InitOrder ==
    /\ framebuffer = FreshFramebuffer
    /\ pc = "order"
    /\ \E k \in 0..MaxWrites : \E q \in [1..k -> Writes] : writes = Range(q)
    /\ pending = writes
    /\ call = NoCall
    /\ draws = 0
    /\ point_call = NoCall
    /\ frame_log = [stale |-> {}, colors |-> {}]
    /\ writers = <<>>
    /\ IdleFrame
    /\ IdleAssembly
    /\ IdleCalls

\* any write not issued yet is issued next
IssueWrite ==
    /\ pc = "order"
    /\ \E w \in pending :
          /\ framebuffer' = Write(framebuffer, w)
          /\ pending' = pending \ {w}
    /\ UNCHANGED <<pc, body_index, orbit_index, call, show_orbits, draws,
                   point_call, frame_log, writes, writers, vertex_array,
                   uniforms, triangles,
                   given, args, results>>

NextOrder == IssueWrite

SpecOrder == InitOrder /\ [][NextOrder]_vars

(***************************************************************************)
(* The fragments of one draw call split between two writers that share the *)
(* framebuffer: each does set_current_color and then point for each of its *)
(* fragments, each of the two calls being one atomic step.                 *)
(***************************************************************************)
WriterIds == {1, 2}

\* the fragments handed to the writers lie on the first row of pixels
RowWrites == {w \in Writes : w.y = 0}

InitConc ==
    /\ framebuffer = FreshFramebuffer
    /\ pc = "conc"
    /\ writers \in [WriterIds -> [fragments : SeqsUpTo(RowWrites, MaxWriterFragments),
                                  phase : {"set"}]]
    /\ writes = writers
    /\ pending = {}
    /\ call = NoCall
    /\ draws = 0
    /\ point_call = NoCall
    /\ frame_log = [stale |-> {}, colors |-> {}]
    /\ IdleFrame
    /\ IdleAssembly
    /\ IdleCalls

\* writer i sets the shared color register for its next fragment
ConcSetColor(i) ==
    /\ pc = "conc"
    /\ writers[i].fragments # <<>>
    /\ writers[i].phase = "set"
    /\ framebuffer' = WriterSetColor(framebuffer, Head(writers[i].fragments))
    /\ writers' = [writers EXCEPT ![i].phase = "point"]
    /\ UNCHANGED <<pc, body_index, orbit_index, call, show_orbits, draws,
                   point_call, frame_log, writes, pending, vertex_array,
                   uniforms, triangles,
                   given, args, results>>

\* writer i does the depth-tested write of its fragment
ConcPoint(i) ==
    /\ pc = "conc"
    /\ writers[i].fragments # <<>>
    /\ writers[i].phase = "point"
    /\ framebuffer' = WriterPoint(framebuffer, Head(writers[i].fragments))
    /\ writers' = [writers EXCEPT ![i].fragments = Tail(@), ![i].phase = "set"]
    /\ UNCHANGED <<pc, body_index, orbit_index, call, show_orbits, draws,
                   point_call, frame_log, writes, pending, vertex_array,
                   uniforms, triangles,
                   given, args, results>>

NextConc ==
    \/ \E i \in WriterIds : ConcSetColor(i)
    \/ \E i \in WriterIds : ConcPoint(i)

SpecConc == InitConc /\ [][NextConc]_vars

(***************************************************************************)
(* shaders.rs: vertex_shader.  A Mat4 is a tuple of four rows and a Mat3 a *)
(* tuple of three; matrix entries are whole numbers, vector components are *)
(* fixed point.                                                            *)
(***************************************************************************)
Vec3(x, y, z) == [x |-> x, y |-> y, z |-> z]

Vec4(x, y, z, w) == [x |-> x, y |-> y, z |-> z, w |-> w]

\* f32 division of fixed-point values by a whole or fixed-point divisor,
\* rounded toward zero
Quot(a, b) ==
    IF (a < 0) = (b < 0) THEN Abs(a) \div Abs(b) ELSE -(Abs(a) \div Abs(b))

\* nalgebra's linear index m[k] of a Mat4: column-major
Lin(m, k) == m[(k % 4) + 1][(k \div 4) + 1]

Mat4Mul(a, b) ==
    [i \in 1..4 |-> [j \in 1..4 |->
        a[i][1] * b[1][j] + a[i][2] * b[2][j] + a[i][3] * b[3][j] + a[i][4] * b[4][j]]]

Mat4Vec(m, v) ==
    Vec4(m[1][1] * v.x + m[1][2] * v.y + m[1][3] * v.z + m[1][4] * v.w,
         m[2][1] * v.x + m[2][2] * v.y + m[2][3] * v.z + m[2][4] * v.w,
         m[3][1] * v.x + m[3][2] * v.y + m[3][3] * v.z + m[3][4] * v.w,
         m[4][1] * v.x + m[4][2] * v.y + m[4][3] * v.z + m[4][4] * v.w)

Transpose3(m) == [i \in 1..3 |-> [j \in 1..3 |-> m[j][i]]]

Det3(m) ==
      m[1][1] * (m[2][2] * m[3][3] - m[2][3] * m[3][2])
    - m[1][2] * (m[2][1] * m[3][3] - m[2][3] * m[3][1])
    + m[1][3] * (m[2][1] * m[3][2] - m[2][2] * m[3][1])

\* the adjugate: Inverse(m) = Adj3(m) / Det3(m)
Adj3(m) ==
    << << m[2][2] * m[3][3] - m[2][3] * m[3][2],
          m[1][3] * m[3][2] - m[1][2] * m[3][3],
          m[1][2] * m[2][3] - m[1][3] * m[2][2] >>,
       << m[2][3] * m[3][1] - m[2][1] * m[3][3],
          m[1][1] * m[3][3] - m[1][3] * m[3][1],
          m[1][3] * m[2][1] - m[1][1] * m[2][3] >>,
       << m[2][1] * m[3][2] - m[2][2] * m[3][1],
          m[1][2] * m[3][1] - m[1][1] * m[3][2],
          m[1][1] * m[2][2] - m[1][2] * m[2][1] >> >>

Mat3Vec(m, v) ==
    Vec3(m[1][1] * v.x + m[1][2] * v.y + m[1][3] * v.z,
         m[2][1] * v.x + m[2][2] * v.y + m[2][3] * v.z,
         m[3][1] * v.x + m[3][2] * v.y + m[3][3] * v.z)

\* a singular block whose inverse is replaced by the zero matrix
InverseOrIdentityVec_zero(m, v) ==
    IF Det3(m) = 0 THEN Vec3(0, 0, 0)
    ELSE LET a == Mat3Vec(Adj3(m), v)
         IN  Vec3(Quot(a.x, Det3(m)), Quot(a.y, Det3(m)), Quot(a.z, Det3(m)))

\* m.try_inverse().unwrap_or(identity) applied to v
InverseOrIdentityVec(m, v) ==
    IF Det3(m) = 0 THEN v
    ELSE LET a == Mat3Vec(Adj3(m), v)
         IN  Vec3(Quot(a.x, Det3(m)), Quot(a.y, Det3(m)), Quot(a.z, Det3(m)))

vertex_shader(vertex, u) ==
    LET position == Vec4(vertex.position.x, vertex.position.y, vertex.position.z, Scale)
        transformed ==
            Mat4Vec(Mat4Mul(Mat4Mul(u.projection_matrix, u.view_matrix), u.model_matrix),
                    position)
        w == transformed.w
        ndc_position == Vec4(Quot(transformed.x * Scale, w),
                             Quot(transformed.y * Scale, w),
                             Quot(transformed.z * Scale, w),
                             Scale)
        screen_position == Mat4Vec(u.viewport_matrix, ndc_position)
        m == u.model_matrix
        model_mat3 == << <<Lin(m, 0), Lin(m, 1), Lin(m, 2)>>,
                         <<Lin(m, 4), Lin(m, 5), Lin(m, 6)>>,
                         <<Lin(m, 8), Lin(m, 9), Lin(m, 10)>> >>
        transformed_normal == InverseOrIdentityVec(Transpose3(model_mat3), vertex.normal)
    IN  [position |-> vertex.position,
         normal |-> vertex.normal,
         tex_coords |-> vertex.tex_coords,
         color |-> vertex.color,
         transformed_position |->
             Vec3(screen_position.x, screen_position.y, screen_position.z),
         transformed_normal |-> transformed_normal]

(***************************************************************************)
(* main.rs: the vertex stage and the primitive assembly of render.         *)
(***************************************************************************)
\* for vertex in vertex_array { transformed_vertices.push(vertex_shader(..)) }
VertexStage(vertices, u) ==
    [i \in 1..Len(vertices) |-> vertex_shader(vertices[i], u)]

\* for i in (i..len).step_by(step) { if i + 2 < len { triangles.push(..) } }
RECURSIVE AssemblyLoop(_, _, _, _)
AssemblyLoop(transformed_vertices, i, step, acc) ==
    IF i >= Len(transformed_vertices) THEN acc
    ELSE AssemblyLoop(transformed_vertices, i + step, step,
                      IF i + 2 < Len(transformed_vertices)
                      THEN Append(acc, << transformed_vertices[i + 1],
                                          transformed_vertices[i + 2],
                                          transformed_vertices[i + 3] >>)
                      ELSE acc)

\* PrimitiveAssembly stepping by 2
PrimitiveAssembly_step2(transformed_vertices) ==
    AssemblyLoop(transformed_vertices, 0, 2, <<>>)

\* the loop as render runs it: from 0, step_by(3)
PrimitiveAssembly(transformed_vertices) ==
    AssemblyLoop(transformed_vertices, 0, 3, <<>>)

Identity4 ==
    << <<1, 0, 0, 0>>, <<0, 1, 0, 0>>, <<0, 0, 1, 0>>, <<0, 0, 0, 1>> >>

create_viewport_matrix(width, height) ==
    << <<width \div 2, 0, 0, width \div 2>>,
       <<0, -(height \div 2), 0, height \div 2>>,
       <<0, 0, 1, 0>>,
       <<0, 0, 0, 1>> >>

\* model matrices: identity, a translation, a quarter turn about z followed
\* by a translation, a uniform scale, and a scale of zero
ModelMatrices ==
    { Identity4,
      << <<1, 0, 0, 3>>, <<0, 1, 0, 0>>, <<0, 0, 1, -2>>, <<0, 0, 0, 1>> >>,
      << <<0, -1, 0, 1>>, <<1, 0, 0, 0>>, <<0, 0, 1, 0>>, <<0, 0, 0, 1>> >>,
      << <<2, 0, 0, 0>>, <<0, 2, 0, 0>>, <<0, 0, 2, 0>>, <<0, 0, 0, 1>> >>,
      << <<0, 0, 0, 0>>, <<0, 0, 0, 0>>, <<0, 0, 0, 0>>, <<0, 0, 0, 1>> >> }

\* projection matrices: the identity, and one that leaves w = 2
ProjectionMatrices ==
    { Identity4,
      << <<1, 0, 0, 0>>, <<0, 1, 0, 0>>, <<0, 0, 1, 0>>, <<0, 0, 0, 2>> >> }

DrawUniforms ==
    [model_matrix : ModelMatrices,
     view_matrix : {Identity4},
     projection_matrix : ProjectionMatrices,
     viewport_matrix : {create_viewport_matrix(2 * Width, 2 * Height)},
     time : {0}]

\* mesh vertices: Vertex::new leaves the transformed fields at the inputs
MeshVertices ==
    { [position |-> Vec3(Scale, 0, 0), normal |-> Vec3(Scale, 0, 0),
       tex_coords |-> [x |-> 0, y |-> 0], color |-> 0,
       transformed_position |-> Vec3(Scale, 0, 0),
       transformed_normal |-> Vec3(Scale, 0, 0)],
      [position |-> Vec3(-5, 2 * Scale, 3), normal |-> Vec3(0, 6, 8),
       tex_coords |-> [x |-> 5, y |-> Scale], color |-> 0,
       transformed_position |-> Vec3(-5, 2 * Scale, 3),
       transformed_normal |-> Vec3(0, 6, 8)] }

InitAssembly ==
    /\ framebuffer = FreshFramebuffer
    /\ pc = "assembly"
    /\ vertex_array \in SeqsUpTo(MeshVertices, MaxVertices)
    /\ uniforms \in DrawUniforms
    /\ triangles = <<>>
    /\ call = NoCall
    /\ draws = 0
    /\ point_call = NoCall
    /\ frame_log = [stale |-> {}, colors |-> {}]
    /\ IdleFrame
    /\ IdleWrites
    /\ IdleCalls

\* render up to the rasterization stage
AssembleTriangles ==
    /\ pc = "assembly"
    /\ triangles' = PrimitiveAssembly(VertexStage(vertex_array, uniforms))
    /\ pc' = "assembled"
    /\ UNCHANGED <<framebuffer, body_index, orbit_index, call, show_orbits,
                   draws, point_call, frame_log, writes, pending, writers,
                   vertex_array, uniforms,
                   given, args, results>>

NextAssembly == AssembleTriangles

SpecAssembly == InitAssembly /\ [][NextAssembly]_vars

(***************************************************************************)
(* Properties of the framebuffer and of the fragment stage.                *)
(***************************************************************************)
\* the buffer index a logged point call addresses
PointIndex == point_call.y * framebuffer.width + point_call.x

\* C2: a point call with in-range x and y and depth d at index y*width+x
\* writes the current color and d there exactly when d is strictly less than
\* the stored depth, leaves both buffers as they are otherwise, and never
\* touches another pixel.
C2_PointContract ==
    [][(point_call'.fn = "point"
        /\ (point_call'.y * framebuffer.width + point_call'.x) \in Pixels(framebuffer))
       => LET index == point_call'.y * framebuffer.width + point_call'.x
              depth == point_call'.depth
          IN  IF depth < framebuffer.zbuffer[index]
              THEN /\ framebuffer'.buffer =
                         [framebuffer.buffer EXCEPT ![index] = framebuffer'.current_color]
                   /\ framebuffer'.zbuffer =
                         [framebuffer.zbuffer EXCEPT ![index] = depth]
              ELSE /\ framebuffer'.buffer = framebuffer.buffer
                   /\ framebuffer'.zbuffer = framebuffer.zbuffer]_vars

\* a point call was rejected: its pixel holds a strictly smaller depth
C2_Witness ==
    /\ point_call.fn = "point"
    /\ framebuffer.zbuffer[PointIndex] < point_call.depth
    /\ framebuffer.buffer[PointIndex] # framebuffer.current_color

\* C4: after clear every color entry is the background color and every
\* depth entry is the far sentinel, a second clear changes nothing, and a
\* first point write with any finite depth passes the depth test.
C4_ClearResets ==
    point_call.fn = "clear" =>
        /\ \A i \in Pixels(framebuffer) :
              /\ framebuffer.buffer[i] = framebuffer.background_color
              /\ framebuffer.zbuffer[i] = Infinity
        /\ clear(framebuffer) = framebuffer
        /\ \A x \in 0..(framebuffer.width - 1), y \in 0..(framebuffer.height - 1),
              d \in Depths :
              LET after == point(framebuffer, x, y, d)
              IN  /\ after.zbuffer[y * framebuffer.width + x] = d
                  /\ after.buffer[y * framebuffer.width + x] = framebuffer.current_color

\* the clear of a later frame, after an earlier frame drew
C4_Witness ==
    /\ point_call.fn = "clear"
    /\ framebuffer.current_color # Framebuffer_new(Width, Height).current_color

\* C5: every point call render and render_orbit_lines issue has
\* 0 <= x < width and 0 <= y < height.
C5_PointInRange ==
    point_call.fn = "point" =>
        /\ 0 <= point_call.x /\ point_call.x < framebuffer.width
        /\ 0 <= point_call.y /\ point_call.y < framebuffer.height

\* render_orbit_lines wrote the last pixel of a row
C5_Witness ==
    /\ point_call.fn = "point"
    /\ point_call.x = framebuffer.width - 1
    /\ framebuffer.current_color = OrbitColor(OrbitRingColor)
    /\ framebuffer.buffer[PointIndex] = OrbitColor(OrbitRingColor)

\* a fragment position off the framebuffer on any of its four sides
Outside(fb, position) ==
    \/ position.x < 0
    \/ position.y < 0
    \/ position.x >= fb.width
    \/ position.y >= fb.height

\* C6: a fragment whose position is outside the framebuffer (x < 0, y < 0,
\* x >= width or y >= height) triggers no point call: it is dropped, not
\* redirected to another pixel.
C6_OutsideDropped ==
    (point_call.fn \in {"point", "dropped"} /\ Outside(framebuffer, point_call.position))
        => point_call.fn = "dropped"

\* C7: outside clear, a color or depth entry changes only as the effect of
\* a point call on that entry, and the dimensions of the framebuffer and the
\* lengths of its buffers never change.
C7_OnlyPointWrites ==
    [][/\ framebuffer'.width = framebuffer.width
       /\ framebuffer'.height = framebuffer.height
       /\ DOMAIN framebuffer'.buffer = DOMAIN framebuffer.buffer
       /\ DOMAIN framebuffer'.zbuffer = DOMAIN framebuffer.zbuffer
       /\ point_call'.fn # "clear" =>
             \A i \in DOMAIN framebuffer.buffer :
                (\/ framebuffer'.buffer[i] # framebuffer.buffer[i]
                 \/ framebuffer'.zbuffer[i] # framebuffer.zbuffer[i])
                => /\ point_call'.fn = "point"
                   /\ i = point_call'.y * framebuffer.width + point_call'.x
                   /\ point_call'.depth < framebuffer.zbuffer[i]
                   /\ framebuffer'.zbuffer[i] = point_call'.depth
                   /\ framebuffer'.buffer[i] = framebuffer'.current_color]_vars

\* draw_line_on_framebuffer has walked over a whole row and is past its end
C7_Witness ==
    /\ point_call.fn = "dropped"
    /\ point_call.position.x = framebuffer.width
    /\ \A i \in Pixels(framebuffer) :
          /\ framebuffer.buffer[i] = 4210816
          /\ framebuffer.zbuffer[i] \in Depths

\* C10: render shades every in-bounds fragment with the one variant of the
\* call and sets the current color to the result right before the point
\* write, so a write that passes the depth test stores that fragment's color.
C10_ShadedColorWritten ==
    [][(call # NoCall /\ call.fn = "render")
       => /\ call' # NoCall =>
                /\ call'.shader_type = call.shader_type
                /\ call'.uniforms = call.uniforms
          /\ point_call'.fn = "point" =>
                LET color == ShadedColor(point_call'.fragment, call.uniforms,
                                         call.shader_type)
                IN  /\ framebuffer'.current_color = color
                    /\ \A i \in Pixels(framebuffer) :
                          framebuffer'.buffer[i] # framebuffer.buffer[i]
                          => framebuffer'.buffer[i] = color]_vars

\* one render call left two pixels with two different shaded colors
C10_Witness ==
    /\ point_call.fn = "point"
    /\ call = NoCall
    /\ draws = 1
    /\ \E i, j \in Pixels(framebuffer) :
          /\ framebuffer.buffer[i] # framebuffer.buffer[j]
          /\ framebuffer.buffer[i] # framebuffer.background_color
          /\ framebuffer.buffer[j] # framebuffer.background_color
          /\ framebuffer.buffer[i] \in {ShadedColor(f, [time |-> 0], "Sun") : f \in Fragments}
          /\ framebuffer.buffer[j] \in {ShadedColor(f, [time |-> 0], "Sun") : f \in Fragments}

\* C8: a frame draws only between its clear and its presentation, and a
\* presented pixel holds either the background color with the far depth or
\* the color of a point call of the same frame: nothing an earlier frame
\* wrote is left.
C8_FrameBracket ==
    /\ (call # NoCall \/ point_call.fn \in {"point", "dropped"})
          => pc \in {"bodies", "orbits"}
    /\ pc = "present" =>
          /\ call = NoCall
          /\ frame_log.stale = {}
          /\ \A i \in Pixels(framebuffer) :
                \/ /\ framebuffer.buffer[i] = framebuffer.background_color
                   /\ framebuffer.zbuffer[i] = Infinity
                \/ /\ framebuffer.buffer[i] \in frame_log.colors
                   /\ framebuffer.zbuffer[i] \in Depths

\* a frame that drew nothing is presented after a frame that drew
C8_Witness ==
    /\ pc = "present"
    /\ frame_log.colors = {}
    /\ framebuffer.current_color # Framebuffer_new(Width, Height).current_color
    /\ \A i \in Pixels(framebuffer) :
          framebuffer.buffer[i] = framebuffer.background_color

(***************************************************************************)
(* Properties of the order of the writes.                                  *)
(***************************************************************************)
\* the writes of a set that address buffer index i
WritesAt(ws, i) == {w \in ws : w.y * Width + w.x = i}

\* the least depth a set of writes carries for index i, the far sentinel if none
MinDepthAt(ws, i) ==
    IF WritesAt(ws, i) = {} THEN Infinity
    ELSE CHOOSE d \in {w.depth : w \in WritesAt(ws, i)} :
            \A w \in WritesAt(ws, i) : d <= w.depth

\* the colors of the writes of least depth for index i
MinDepthColors(ws, i) ==
    {w.color : w \in {v \in WritesAt(ws, i) : v.depth = MinDepthAt(ws, i)}}

\* the writes of a set applied one after the other, in one fixed order
RECURSIVE ApplyWrites(_, _)
ApplyWrites(fb, ws) ==
    IF ws = {} THEN fb
    ELSE LET w == CHOOSE v \in ws : TRUE
         IN  ApplyWrites(Write(fb, w), ws \ {w})

\* the writes of a sequence applied first to last
RECURSIVE Sequential(_, _)
Sequential(fb, q) ==
    IF q = <<>> THEN fb ELSE Sequential(Write(fb, Head(q)), Tail(q))

\* C1 as stated: whatever the order the writes were issued in, the final
\* color and depth buffers are those of one fixed order of the same writes.
C1_AnyOrderSameBuffers ==
    (pc = "order" /\ pending = {}) =>
        LET ref == ApplyWrites(FreshFramebuffer, writes)
        IN  /\ framebuffer.buffer = ref.buffer
            /\ framebuffer.zbuffer = ref.zbuffer

\* C1, amended: in any order every depth entry ends as the least depth
\* written to its pixel and every color entry as the color of one of the
\* writes of that least depth (the background where nothing was written);
\* the buffers are the same in every order when no pixel has two writes of
\* least depth with different colors.
C1_MinDepthWins ==
    pc = "order" =>
        LET issued == writes \ pending
        IN  /\ \A i \in Pixels(framebuffer) :
                  /\ framebuffer.zbuffer[i] = MinDepthAt(issued, i)
                  /\ IF WritesAt(issued, i) = {}
                     THEN framebuffer.buffer[i] = framebuffer.background_color
                     ELSE framebuffer.buffer[i] \in MinDepthColors(issued, i)
            /\ (pending = {}
                /\ \A i \in Pixels(framebuffer) : Cardinality(MinDepthColors(writes, i)) <= 1)
               => LET ref == ApplyWrites(FreshFramebuffer, writes)
                  IN  /\ framebuffer.buffer = ref.buffer
                      /\ framebuffer.zbuffer = ref.zbuffer

\* all writes are issued, and two of them carried the least depth of one
\* pixel with different colors
C1_Witness ==
    /\ pc = "order"
    /\ pending = {}
    /\ \E i \in Pixels(framebuffer) :
          /\ Cardinality(MinDepthColors(writes, i)) = 2
          /\ framebuffer.zbuffer[i] = MinDepthAt(writes, i)
          /\ framebuffer.buffer[i] \in WriteColors

\* every writer has processed all its fragments
ConcDone == pc = "conc" /\ \A i \in WriterIds : writers[i].fragments = <<>>

\* the fragments the writers were handed, as a set and in the draw call's order
ConcFragments == UNION {Range(writes[i].fragments) : i \in WriterIds}

ConcSequence == writes[1].fragments \o writes[2].fragments

\* C3 as stated: every interleaving of the writers ends with the color and
\* depth buffers of the sequential execution.
C3_InterleavingsAsSequential ==
    ConcDone =>
        LET ref == Sequential(FreshFramebuffer, ConcSequence)
        IN  /\ framebuffer.buffer = ref.buffer
            /\ framebuffer.zbuffer = ref.zbuffer

\* C3, amended: every interleaving ends with the depth buffer of the
\* sequential execution, each depth entry the least depth written to its
\* pixel; a written pixel holds the color of some fragment of the call, its
\* own or another writer's, and the color buffer is the sequential one when
\* all fragments of the call carry one color.
C3_DepthsAsSequential ==
    ConcDone =>
        LET ref == Sequential(FreshFramebuffer, ConcSequence)
        IN  /\ framebuffer.zbuffer = ref.zbuffer
            /\ \A i \in Pixels(framebuffer) :
                  /\ framebuffer.zbuffer[i] = MinDepthAt(ConcFragments, i)
                  /\ IF WritesAt(ConcFragments, i) = {}
                     THEN framebuffer.buffer[i] = framebuffer.background_color
                     ELSE framebuffer.buffer[i] \in {w.color : w \in ConcFragments}
            /\ Cardinality({w.color : w \in ConcFragments}) <= 1
               => framebuffer.buffer = ref.buffer

\* the writers are done and a pixel holds a color that no fragment
\* addressed to that pixel carried
C3_Witness ==
    /\ ConcDone
    /\ \E i \in Pixels(framebuffer) :
          /\ WritesAt(ConcFragments, i) # {}
          /\ framebuffer.buffer[i] \notin {w.color : w \in WritesAt(ConcFragments, i)}

IdlePipeline ==
    /\ framebuffer = FreshFramebuffer
    /\ call = NoCall
    /\ draws = 0
    /\ point_call = NoCall
    /\ frame_log = [stale |-> {}, colors |-> {}]
    /\ IdleFrame
    /\ IdleWrites
    /\ IdleAssembly

(***************************************************************************)
(* shaders.rs: fragment_shader called twice with the same arguments.       *)
(***************************************************************************)
\* Uniforms::new: the noise generator is configured once, at construction
ShaderUniforms ==
    [time : {t * Scale : t \in 0..MaxTime},
     noise : {[noise_type |-> "OpenSimplex2"]}]

\* a call that advances the time it was handed
ShaderCall_advancing(a) ==
    [value |-> fragment_shader(a.fragment, a.uniforms, a.shader_type),
     args |-> [a EXCEPT !.uniforms.time = @ + Scale]]

\* fragment_shader(&Fragment, &Uniforms, &ShaderType) -> Color: the value
\* returned, and the arguments as the call leaves them
ShaderCall(a) ==
    [value |-> fragment_shader(a.fragment, a.uniforms, a.shader_type),
     args |-> a]

InitShader ==
    /\ pc = "shade"
    /\ given \in [fragment : Fragments, uniforms : ShaderUniforms,
                  shader_type : ShaderType]
    /\ args = given
    /\ results = <<>>
    /\ IdlePipeline

\* the first call
ShadeOnce ==
    /\ pc = "shade"
    /\ results = <<>>
    /\ results' = <<ShaderCall(args).value>>
    /\ args' = ShaderCall(args).args
    /\ UNCHANGED <<framebuffer, pc, body_index, orbit_index, call, show_orbits,
                   draws, point_call, frame_log, writes, pending, writers,
                   vertex_array, uniforms, triangles, given>>

\* the second call, with what the caller holds after the first
ShadeAgain ==
    /\ pc = "shade"
    /\ Len(results) = 1
    /\ results' = Append(results, ShaderCall(args).value)
    /\ args' = ShaderCall(args).args
    /\ pc' = "shaded"
    /\ UNCHANGED <<framebuffer, body_index, orbit_index, call, show_orbits,
                   draws, point_call, frame_log, writes, pending, writers,
                   vertex_array, uniforms, triangles, given>>

NextShader == ShadeOnce \/ ShadeAgain

SpecShader == InitShader /\ [][NextShader]_vars

FlatModel ==
    << <<1, 0, 0, 0>>, <<0, 1, 0, 0>>, <<0, 0, 0, 0>>, <<0, 0, 0, 1>> >>

VertexUniforms ==
    [model_matrix : ModelMatrices \cup {FlatModel},
     view_matrix : {Identity4},
     projection_matrix : ProjectionMatrices,
     viewport_matrix : {create_viewport_matrix(2 * Width, 2 * Height)},
     time : {0}]

\* vertices as Vertex::new makes them: the transformed fields start at the
\* inputs
ShaderVertices ==
    { [position |-> p, normal |-> n, tex_coords |-> [x |-> 5, y |-> Scale],
       color |-> 0, transformed_position |-> p, transformed_normal |-> n] :
      p \in {Vec3(Scale, 0, 0), Vec3(-5, 2 * Scale, 3), Vec3(0, 0, 0)},
      n \in {Vec3(Scale, 0, 0), Vec3(0, Scale, 0), Vec3(0, 6, 8), Vec3(6, 0, -8)} }

\* row i, column j of the model matrix, for i, j in 1..3
UpperLeft3(m) == [i \in 1..3 |-> [j \in 1..3 |-> m[i][j]]]

\* a call that transforms the vertex in place and returns it
VertexCall_in_place(a) ==
    LET out == vertex_shader(a.vertex, a.uniforms)
        moved == [out EXCEPT !.position = out.transformed_position,
                             !.normal = out.transformed_normal]
    IN  [value |-> moved, args |-> [a EXCEPT !.vertex = moved]]

\* vertex_shader(&Vertex, &Uniforms) -> Vertex: the vertex returned, and the
\* arguments as the call leaves them
VertexCall(a) == [value |-> vertex_shader(a.vertex, a.uniforms), args |-> a]

InitVertex ==
    /\ pc = "vertex"
    /\ given \in [vertex : ShaderVertices, uniforms : VertexUniforms]
    /\ args = given
    /\ results = <<>>
    /\ IdlePipeline

TransformVertex ==
    /\ pc = "vertex"
    /\ results' = <<VertexCall(args).value>>
    /\ args' = VertexCall(args).args
    /\ pc' = "transformed"
    /\ UNCHANGED <<framebuffer, body_index, orbit_index, call, show_orbits,
                   draws, point_call, frame_log, writes, pending, writers,
                   vertex_array, uniforms, triangles, given>>

NextVertex == TransformVertex

SpecVertex == InitVertex /\ [][NextVertex]_vars

\* C12: vertex_shader returns a new vertex whose position, normal,
\* tex_coords and color equal the input vertex's; only transformed_position
\* and transformed_normal are populated by the shader; the input vertex and
\* the uniforms are not modified.
C12_AttributesCopied ==
    /\ args = given
    /\ pc = "transformed" =>
          /\ results[1].position = given.vertex.position
          /\ results[1].normal = given.vertex.normal
          /\ results[1].tex_coords = given.vertex.tex_coords
          /\ results[1].color = given.vertex.color
          /\ DOMAIN results[1] = DOMAIN given.vertex

\* a vertex came back with both transformed fields different from its
\* position and its normal
C12_Witness ==
    /\ pc = "transformed"
    /\ results[1].transformed_position # given.vertex.position
    /\ results[1].transformed_normal # given.vertex.normal
    /\ results[1].position = given.vertex.position

\* C13: when the upper-left 3x3 block M of the model matrix is invertible,
\* transformed_normal equals transpose(inverse(M)) times the input normal,
\* in particular for rotation matrices, which are not symmetric.
C13_InverseTranspose ==
    (pc = "transformed" /\ Det3(UpperLeft3(given.uniforms.model_matrix)) # 0) =>
        results[1].transformed_normal =
            InverseOrIdentityVec(Transpose3(UpperLeft3(given.uniforms.model_matrix)),
                                 given.vertex.normal)

\* what vertex_shader computes for an invertible block: inverse(M) times the
\* input normal
C13_InverseApplied ==
    (pc = "transformed" /\ Det3(UpperLeft3(given.uniforms.model_matrix)) # 0) =>
        results[1].transformed_normal =
            InverseOrIdentityVec(UpperLeft3(given.uniforms.model_matrix),
                                 given.vertex.normal)

\* the normal (1, 0, 0) went through the quarter turn about z and came back
\* as (0, -1, 0)
C13_Witness ==
    /\ pc = "transformed"
    /\ UpperLeft3(given.uniforms.model_matrix) =
           << <<0, -1, 0>>, <<1, 0, 0>>, <<0, 0, 1>> >>
    /\ given.vertex.normal = Vec3(Scale, 0, 0)
    /\ results[1].transformed_normal = Vec3(0, -Scale, 0)

\* C14: when the upper-left 3x3 block of the model matrix is singular,
\* vertex_shader does not fail: the normal matrix is the identity and
\* transformed_normal equals the input normal.
C14_SingularKeepsNormal ==
    (pc = "transformed" /\ Det3(UpperLeft3(given.uniforms.model_matrix)) = 0) =>
        /\ results[1].transformed_normal = given.vertex.normal
        /\ results[1].position = given.vertex.position

\* a vertex went through a model matrix that scales z by zero and leaves x
\* and y alone, with a normal that has a z component
C14_Witness ==
    /\ pc = "transformed"
    /\ given.uniforms.model_matrix = FlatModel
    /\ given.vertex.normal = Vec3(0, 6, 8)
    /\ results[1].transformed_normal = Vec3(0, 6, 8)

(***************************************************************************)
(* The rasterizer (triangle.rs) and render's two last stages on a single   *)
(* triangle.  Screen coordinates are whole pixels; the edge functions are  *)
(* evaluated in half pixels, at the pixel's corner (half = 0) or at its    *)
(* centre (half = 1).                                                      *)
(***************************************************************************)
Min3(a, b, c) == Min2(a, Min2(b, c))
Max3(a, b, c) == Max2(a, Max2(b, c))

\* the framebuffer a single triangle is drawn on
RasterFramebuffer ==
    clear(set_background_color(Framebuffer_new(RasterWidth, RasterHeight), BACKGROUND))

\* twice the signed area of (a, b, p), all three in the same unit
EdgeFunction(ax, ay, bx, by, px, py) ==
    (px - ax) * (by - ay) - (py - ay) * (bx - ax)

\* twice the signed area of the triangle, in pixels
SignedArea(a, b, c) == EdgeFunction(a.x, a.y, b.x, b.y, c.x, c.y)

\* the three weights of pixel p before normalisation, in half pixels: they
\* sum to 4 * SignedArea
BarycentricWeights(a, b, c, p, half) ==
    LET px == 2 * p.x + half
        py == 2 * p.y + half
    IN  << EdgeFunction(2 * b.x, 2 * b.y, 2 * c.x, 2 * c.y, px, py),
           EdgeFunction(2 * c.x, 2 * c.y, 2 * a.x, 2 * a.y, px, py),
           EdgeFunction(2 * a.x, 2 * a.y, 2 * b.x, 2 * b.y, px, py) >>

\* coverage that accepts one winding only
Covered_one_winding(w) == w[1] >= 0 /\ w[2] >= 0 /\ w[3] >= 0

\* a pixel is covered iff the weights are all non-negative or all
\* non-positive
Covered(w) ==
    \/ w[1] >= 0 /\ w[2] >= 0 /\ w[3] >= 0
    \/ w[1] <= 0 /\ w[2] <= 0 /\ w[3] <= 0

\* a rasterizer that takes no triangle for degenerate
Degenerate_never(area) == FALSE

\* a triangle of zero signed area
Degenerate(area) == area = 0

\* the bounding box of the three points as it is, without clamping
BoundingBox_unclamped(a, b, c) ==
    [min_x |-> Min3(a.x, b.x, c.x), max_x |-> Max3(a.x, b.x, c.x),
     min_y |-> Min3(a.y, b.y, c.y), max_y |-> Max3(a.y, b.y, c.y)]

\* the bounding box of the three points, clamped to the framebuffer
BoundingBox(a, b, c) ==
    [min_x |-> Max2(Min3(a.x, b.x, c.x), 0),
     max_x |-> Min2(Max3(a.x, b.x, c.x), RasterWidth - 1),
     min_y |-> Max2(Min3(a.y, b.y, c.y), 0),
     max_y |-> Min2(Max3(a.y, b.y, c.y), RasterHeight - 1)]

\* the integer pixels of a box, row by row
BoxPixels(box) ==
    LET w == Max2(box.max_x - box.min_x + 1, 0)
        h == Max2(box.max_y - box.min_y + 1, 0)
    IN  [i \in 1..(w * h) |->
            [x |-> box.min_x + ((i - 1) % w), y |-> box.min_y + ((i - 1) \div w)]]

\* an attribute interpolated by the normalised weights
Interpolate(w, total, fa, fb, fc) ==
    Quot(w[1] * fa + w[2] * fb + w[3] * fc, IF total = 0 THEN 1 ELSE total)

\* the pixels a triangle with the screen points a, b, c covers, in the
\* order of the scan; none for a degenerate triangle
TrianglePixels(a, b, c, half) ==
    LET covered(p) == Covered(BarycentricWeights(a, b, c, p, half))
    IN  IF Degenerate(SignedArea(a, b, c)) THEN <<>>
        ELSE SelectSeq(BoxPixels(BoundingBox(a, b, c)), covered)

\* triangle(v1, v2, v3): the fragments of one triangle
triangle(v1, v2, v3, half) ==
    LET a == v1.transformed_position
        b == v2.transformed_position
        c == v3.transformed_position
        area == SignedArea(a, b, c)
        weights(p) == BarycentricWeights(a, b, c, p, half)
        pixels == TrianglePixels(a, b, c, half)
        fragment(p) ==
            LET w == weights(p)
            IN  [position |-> [x |-> p.x, y |-> p.y],
                 depth |-> Interpolate(w, 4 * area, a.z, b.z, c.z),
                 vertex_position |->
                     Vec3(Interpolate(w, 4 * area, v1.position.x, v2.position.x,
                                      v3.position.x),
                          Interpolate(w, 4 * area, v1.position.y, v2.position.y,
                                      v3.position.y),
                          Interpolate(w, 4 * area, v1.position.z, v2.position.z,
                                      v3.position.z)),
                 intensity |-> Scale]
    IN  [i \in 1..Len(pixels) |-> fragment(pixels[i])]

\* for fragment in fragments { ... }: render's fragment processing stage
RECURSIVE FragmentLoop(_, _, _, _, _)
FragmentLoop(fb, fragments, i, u, shader_type) ==
    IF i > Len(fragments) THEN fb
    ELSE FragmentLoop(RenderFragment(fb, fragments[i], u, shader_type),
                      fragments, i + 1, u, shader_type)

\* screen positions of a transformed vertex: up to one pixel outside the
\* framebuffer on every side
ScreenPoints == [x : (-1)..RasterWidth, y : (-1)..RasterHeight]

\* a transformed vertex: model-space position m, screen position p, depth z
TransformedVertex(m, p, z) ==
    [position |-> m, normal |-> Vec3(0, 0, Scale),
     tex_coords |-> [x |-> 0, y |-> 0], color |-> 0,
     transformed_position |-> Vec3(p.x, p.y, z),
     transformed_normal |-> Vec3(0, 0, Scale)]

\* the order of screen points by x, then by y
PointLeq(p, q) == p.x < q.x \/ (p.x = q.x /\ p.y <= q.y)

\* the triangles start at their least vertex and go on in either direction:
\* every triangle is one of these with its vertices rotated
InitRaster ==
    /\ pc = "raster"
    /\ \E p1 \in ScreenPoints, p2 \in ScreenPoints, p3 \in ScreenPoints :
       \E half \in {0, 1} :
          /\ PointLeq(p1, p2)
          /\ PointLeq(p1, p3)
          /\ given = [v1 |-> TransformedVertex(Vec3(0, 0, 0), p1, 1),
                      v2 |-> TransformedVertex(Vec3(12, 2, -3), p2, MaxDepth),
                      v3 |-> TransformedVertex(Vec3(0, 12, 0), p3, 1),
                      half |-> half]
    /\ args = given
    /\ results = <<>>
    /\ framebuffer = RasterFramebuffer
    /\ call = NoCall
    /\ draws = 0
    /\ point_call = NoCall
    /\ frame_log = [stale |-> {}, colors |-> {}]
    /\ IdleFrame
    /\ IdleWrites
    /\ IdleAssembly

\* fragments.extend(triangle(&tri[0], &tri[1], &tri[2]))
Rasterize ==
    /\ pc = "raster"
    /\ results' = <<triangle(args.v1, args.v2, args.v3, args.half)>>
    /\ pc' = "rasterized"
    /\ UNCHANGED <<framebuffer, body_index, orbit_index, call, show_orbits,
                   draws, point_call, frame_log, writes, pending, writers,
                   vertex_array, uniforms, triangles, given, args>>

\* the fragment processing stage on the triangle's fragments
DrawFragments ==
    /\ pc = "rasterized"
    /\ framebuffer' = FragmentLoop(framebuffer, results[1], 1, uniforms, "Ship")
    /\ pc' = "drawn"
    /\ UNCHANGED <<body_index, orbit_index, call, show_orbits, draws,
                   point_call, frame_log, writes, pending, writers,
                   vertex_array, uniforms, triangles, given, args, results>>

NextRaster == Rasterize \/ DrawFragments

SpecRaster == InitRaster /\ [][NextRaster]_vars

\* the triangle a rasterizer call was given
GivenArea ==
    SignedArea(given.v1.transformed_position, given.v2.transformed_position,
               given.v3.transformed_position)

GivenBox ==
    BoundingBox(given.v1.transformed_position, given.v2.transformed_position,
                given.v3.transformed_position)

\* C15: a degenerate triangle (three collinear or coincident screen points,
\* zero signed area) yields an empty fragment sequence, without an error
\* and without any point write.
C15_DegenerateEmpty ==
    /\ (pc = "rasterized" /\ GivenArea = 0) => results[1] = <<>>
    /\ (pc = "drawn" /\ GivenArea = 0) => framebuffer = RasterFramebuffer

\* three distinct collinear points inside the framebuffer were rasterized
\* and drawn
C15_Witness ==
    /\ pc = "drawn"
    /\ given.v1.transformed_position = Vec3(0, 0, 1)
    /\ given.v2.transformed_position = Vec3(1, 1, MaxDepth)
    /\ given.v3.transformed_position = Vec3(2, 2, 1)
    /\ results[1] = <<>>

\* the pixels the fragments of a sequence are at
FragmentPixels(fragments) == {fragments[i].position : i \in DOMAIN fragments}

\* the pixels of the clamped bounding box whose weights pass the test
CoveredPixels(a, b, c, half) ==
    {p \in [x : 0..(RasterWidth - 1), y : 0..(RasterHeight - 1)] :
        /\ p.x >= Max2(Min3(a.x, b.x, c.x), 0)
        /\ p.x <= Min2(Max3(a.x, b.x, c.x), RasterWidth - 1)
        /\ p.y >= Max2(Min3(a.y, b.y, c.y), 0)
        /\ p.y <= Min2(Max3(a.y, b.y, c.y), RasterHeight - 1)
        /\ LET w == BarycentricWeights(a, b, c, p, half)
           IN  \/ \A k \in 1..3 : w[k] >= 0
               \/ \A k \in 1..3 : w[k] <= 0}

\* the three vertices of the call in every order
GivenOrders ==
    LET v == <<given.v1, given.v2, given.v3>>
    IN  {<<v[i], v[j], v[k]>> : <<i, j, k>> \in
            {<<1, 2, 3>>, <<1, 3, 2>>, <<2, 1, 3>>, <<2, 3, 1>>, <<3, 1, 2>>, <<3, 2, 1>>}}

\* C16: for a non-degenerate triangle the rasterizer emits exactly one
\* fragment for each integer pixel of the clamped bounding box whose three
\* barycentric weights are all non-negative or all non-positive and none for
\* any other pixel, so both windings and every permutation of the vertices
\* cover the same pixel set.
C16_CoverageAnyWinding ==
    (pc = "rasterized" /\ GivenArea # 0) =>
        /\ FragmentPixels(results[1]) =
               CoveredPixels(given.v1.transformed_position,
                             given.v2.transformed_position,
                             given.v3.transformed_position, given.half)
        /\ Len(results[1]) = Cardinality(FragmentPixels(results[1]))
        /\ \A o \in GivenOrders :
              Range(TrianglePixels(o[1].transformed_position,
                                   o[2].transformed_position,
                                   o[3].transformed_position, given.half)) =
                  FragmentPixels(results[1])

\* the triangle (0,0), (3,0), (0,3), the triangle (0,0), (4,0), (0,4) at the
\* size of this framebuffer, was rasterized with its vertices in this
\* order, which makes the weights of its inner pixels negative
C16_Witness ==
    /\ pc = "rasterized"
    /\ given.v1.transformed_position = Vec3(0, 0, 1)
    /\ given.v2.transformed_position = Vec3(3, 0, MaxDepth)
    /\ given.v3.transformed_position = Vec3(0, 3, 1)
    /\ BarycentricWeights(given.v1.transformed_position,
                          given.v2.transformed_position,
                          given.v3.transformed_position,
                          [x |-> 1, y |-> 1], given.half)[1] < 0
    /\ [x |-> 1, y |-> 1] \in FragmentPixels(results[1])
    /\ [x |-> 2, y |-> 2] \notin FragmentPixels(results[1])
    /\ Len(results[1]) >= 6

\* C17: every fragment of a triangle has integer pixel coordinates inside
\* the triangle's screen-space bounding box clamped to the framebuffer
\* bounds, and rendering a single triangle writes no pixel outside that box.
C17_InsideBoundingBox ==
    /\ pc = "rasterized" =>
          \A i \in DOMAIN results[1] :
              /\ results[1][i].position.x \in
                     Max2(GivenBox.min_x, 0)..Min2(GivenBox.max_x, RasterWidth - 1)
              /\ results[1][i].position.y \in
                     Max2(GivenBox.min_y, 0)..Min2(GivenBox.max_y, RasterHeight - 1)
    /\ pc = "drawn" =>
          \A x \in 0..(RasterWidth - 1), y \in 0..(RasterHeight - 1) :
              (x < GivenBox.min_x \/ x > GivenBox.max_x
               \/ y < GivenBox.min_y \/ y > GivenBox.max_y) =>
                  /\ framebuffer.buffer[y * RasterWidth + x] = BACKGROUND
                  /\ framebuffer.zbuffer[y * RasterWidth + x] = Infinity

\* a triangle with a vertex left of and above the framebuffer was drawn: it
\* wrote pixels, and left pixels outside its box alone
C17_Witness ==
    /\ pc = "drawn"
    /\ given.v1.transformed_position = Vec3(-1, -1, 1)
    /\ GivenBox.max_x < RasterWidth - 1
    /\ \E i \in Pixels(framebuffer) : framebuffer.buffer[i] # BACKGROUND
    /\ framebuffer.buffer[0] # BACKGROUND

(***************************************************************************)
(* shaders.rs: a color packed by to_hex and taken apart again, as          *)
(* lerp_color and blend_colors do with both of their arguments.            *)
(***************************************************************************)
\* the unpacking with the green channel shifted by 7 bits
UnpackChannels_shift7(hex) ==
    [r |-> (hex \div 65536) % 256, g |-> (hex \div 128) % 256, b |-> hex % 256]

\* ((hex >> 16) & 0xFF), ((hex >> 8) & 0xFF), (hex & 0xFF)
UnpackChannels(hex) ==
    [r |-> (hex \div 65536) % 256, g |-> (hex \div 256) % 256, b |-> hex % 256]

\* channel values at the ends and around the middle of the range
ChannelEdges == {0, 1, 127, 128, 255}

\* colors with one channel at any value and the two others at the edges
PackColors ==
    {Color_new(c, e1, e2) : c \in 0..255, e1 \in ChannelEdges, e2 \in ChannelEdges}
    \cup {Color_new(e1, c, e2) : c \in 0..255, e1 \in ChannelEdges, e2 \in ChannelEdges}
    \cup {Color_new(e1, e2, c) : c \in 0..255, e1 \in ChannelEdges, e2 \in ChannelEdges}

InitPack ==
    /\ pc = "pack"
    /\ given \in PackColors
    /\ args = given
    /\ results = <<>>
    /\ IdlePipeline

\* let a_hex = a.to_hex();
Pack ==
    /\ pc = "pack"
    /\ results' = <<to_hex(args)>>
    /\ pc' = "packed"
    /\ UNCHANGED <<framebuffer, body_index, orbit_index, call, show_orbits,
                   draws, point_call, frame_log, writes, pending, writers,
                   vertex_array, uniforms, triangles, given, args>>

\* let r1 = ..; let g1 = ..; let b1 = ..;
Unpack ==
    /\ pc = "packed"
    /\ results' = Append(results, UnpackChannels(results[1]))
    /\ pc' = "unpacked"
    /\ UNCHANGED <<framebuffer, body_index, orbit_index, call, show_orbits,
                   draws, point_call, frame_log, writes, pending, writers,
                   vertex_array, uniforms, triangles, given, args>>

NextPack == Pack \/ Unpack

SpecPack == InitPack /\ [][NextPack]_vars

\* C18: for all channel values r, g, b in 0..255, packing them into the
\* 24-bit value 0xRRGGBB and unpacking with (>>16)&0xFF, (>>8)&0xFF, &0xFF
\* yields r, g, b again, and the packed value never exceeds 0xFFFFFF.
C18_RoundTrip ==
    /\ pc # "pack" => results[1] \in 0..16777215
    /\ pc = "unpacked" => results[2] = given

\* a color with three different channels, the green one odd, went through
\* packing and unpacking
C18_Witness ==
    /\ pc = "unpacked"
    /\ given = Color_new(128, 77, 255)
    /\ results[1] = 8408575

(***************************************************************************)
(* shaders.rs: lerp_color and blend_colors in f32 arithmetic.  A value is  *)
(* a record [hi, lo] standing for (hi * 2^20 + lo) / 2^31, which holds     *)
(* every f32 between 2^-7 and 256 and every exact sum and product of the   *)
(* two functions without loss; RoundF32 is where a result is rounded to    *)
(* the 24 significant bits of an f32.  A factor carries its sign as well.  *)
(***************************************************************************)
\* 2^20: the weight of hi in units of lo
F32Limb == 1048576

Fx(hi, lo) == [hi |-> hi, lo |-> lo]

FxCarry(hi, lo) == Fx(hi + (lo \div F32Limb), lo % F32Limb)

\* 0.0 and 1.0
FxZero == Fx(0, 0)
FxOne == Fx(2048, 0)

\* `u32 as f32` of a channel value: exact
FxOfByte(c) == Fx(c * 2048, 0)

\* the exact sum, the exact difference x - y for y <= x, the exact product
\* of a channel value and x
FxAdd(x, y) == FxCarry(x.hi + y.hi, x.lo + y.lo)

FxSub(x, y) ==
    IF x.lo >= y.lo THEN Fx(x.hi - y.hi, x.lo - y.lo)
    ELSE Fx(x.hi - y.hi - 1, x.lo - y.lo + F32Limb)

FxMulByte(c, x) == FxCarry(c * x.hi, c * x.lo)

FxLeq(x, y) == x.hi < y.hi \/ (x.hi = y.hi /\ x.lo <= y.lo)

\* the number of bits of n
BitLength(n) == CHOOSE k \in 0..22 : n < 2^k /\ (k = 0 \/ n >= 2^(k - 1))

\* the f32 nearest to x, ties to the even mantissa
RoundF32(x) ==
    LET bits == IF x.hi > 0 THEN 20 + BitLength(x.hi) ELSE BitLength(x.lo)
        s == bits - 24
        q == x.hi * 2^(20 - s) + (x.lo \div 2^s)
        rem == x.lo % 2^s
        half == 2^(s - 1)
        up == rem > half \/ (rem = half /\ q % 2 = 1)
        m == IF up THEN q + 1 ELSE q
    IN  IF bits <= 24 THEN x
        ELSE Fx(m \div 2^(20 - s), (m % 2^(20 - s)) * 2^s)

\* `f32 as u8` of a value that is not negative: truncates, saturates at 255
F32AsU8(x) == Min2(x.hi \div 2048, 255)

\* a clamp that drops the sign of its argument
ClampUnit_abs(t) == IF FxLeq(FxOne, Fx(t.hi, t.lo)) THEN FxOne ELSE Fx(t.hi, t.lo)

\* t.clamp(0.0, 1.0)
ClampUnit(t) ==
    IF t.neg THEN FxZero
    ELSE IF FxLeq(FxOne, Fx(t.hi, t.lo)) THEN FxOne
    ELSE Fx(t.hi, t.lo)

\* the channel with the two weights exchanged
LerpChannel_swapped(c1, c2, t) ==
    F32AsU8(RoundF32(FxAdd(RoundF32(FxMulByte(c1, t)),
                           RoundF32(FxMulByte(c2, RoundF32(FxSub(FxOne, t)))))))

\* (c1 * (1.0 - t) + c2 * t) as u8 for a clamped t, every operation rounded
LerpChannel(c1, c2, t) ==
    F32AsU8(RoundF32(FxAdd(RoundF32(FxMulByte(c1, RoundF32(FxSub(FxOne, t)))),
                           RoundF32(FxMulByte(c2, t)))))

lerp_color_f32(a, b, t0) ==
    LET t == ClampUnit(t0)
        a_hex == to_hex(a)
        b_hex == to_hex(b)
        c1 == UnpackChannels(a_hex)
        c2 == UnpackChannels(b_hex)
    IN  Color_new(LerpChannel(c1.r, c2.r, t),
                  LerpChannel(c1.g, c2.g, t),
                  LerpChannel(c1.b, c2.b, t))

blend_colors_f32(base, overlay, factor0) ==
    LET factor == ClampUnit(factor0)
        base_hex == to_hex(base)
        overlay_hex == to_hex(overlay)
        c1 == UnpackChannels(base_hex)
        c2 == UnpackChannels(overlay_hex)
    IN  Color_new(LerpChannel(c1.r, c2.r, factor),
                  LerpChannel(c1.g, c2.g, factor),
                  LerpChannel(c1.b, c2.b, factor))

\* a factor: sign and magnitude
Factor(neg, hi, lo) == [neg |-> neg, hi |-> hi, lo |-> lo]

\* the f32 values 0.0, 0.04, 0.1, 0.3, 0.5, 0.7, 0.96, 1.0, -0.5 and 1.5
LerpFactors ==
    { Factor(FALSE, 0, 0),
      Factor(FALSE, 81, 964688),
      Factor(FALSE, 204, 838864),
      Factor(FALSE, 614, 419456),
      Factor(FALSE, 1024, 0),
      Factor(FALSE, 1433, 629120),
      Factor(FALSE, 1966, 83840),
      Factor(FALSE, 2048, 0),
      Factor(TRUE, 1024, 0),
      Factor(FALSE, 3072, 0) }

\* first colors: the red channel at every value
LerpFirstColors == {Color_new(c, 255 - c, (7 * c) % 256) : c \in 0..255}

\* second colors
LerpSecondColors ==
    { Color_new(3, 3, 3), Color_new(255, 0, 128), Color_new(10, 200, 77),
      Color_new(0, 255, 5), Color_new(100, 155, 188), Color_new(201, 54, 127) }

InitLerp ==
    /\ pc = "lerp"
    /\ given \in [a : LerpFirstColors, b : LerpSecondColors, t : LerpFactors]
    /\ args = given
    /\ results = <<>>
    /\ IdlePipeline

CallLerp ==
    /\ pc = "lerp"
    /\ results' = <<lerp_color_f32(args.a, args.b, args.t)>>
    /\ pc' = "blend"
    /\ UNCHANGED <<framebuffer, body_index, orbit_index, call, show_orbits,
                   draws, point_call, frame_log, writes, pending, writers,
                   vertex_array, uniforms, triangles, given, args>>

CallBlend ==
    /\ pc = "blend"
    /\ results' = Append(results, blend_colors_f32(args.a, args.b, args.t))
    /\ pc' = "blended"
    /\ UNCHANGED <<framebuffer, body_index, orbit_index, call, show_orbits,
                   draws, point_call, frame_log, writes, pending, writers,
                   vertex_array, uniforms, triangles, given, args>>

NextLerp == CallLerp \/ CallBlend

SpecLerp == InitLerp /\ [][NextLerp]_vars

\* C19: for arbitrary colors a and b, lerp_color(a, b, 0.0) equals a and
\* lerp_color(a, b, 1.0) equals b, channel by channel.
C19_BlendBoundary ==
    pc # "lerp" =>
        /\ given.t = Factor(FALSE, 0, 0) => results[1] = given.a
        /\ given.t = Factor(FALSE, 2048, 0) => results[1] = given.b

\* lerp_color returned b at t = 1.0 for two colors that differ in every
\* channel
C19_Witness ==
    /\ pc = "blend"
    /\ given.t = Factor(FALSE, 2048, 0)
    /\ given.a.r # given.b.r /\ given.a.g # given.b.g /\ given.a.b # given.b.b
    /\ results[1] = given.b

\* c1 * (1 - t) + c2 * t without any rounding, for the clamped factor of
\* the call
ExactChannel(c1, c2) ==
    LET t == ClampUnit(given.t)
    IN  FxAdd(FxMulByte(c1, FxSub(FxOne, t)), FxMulByte(c2, t))

\* 2^-12: more than the three roundings of a channel can add up to
RoundingSlack == Fx(0, 524288)

Channels == {"r", "g", "b"}

\* C20: lerp_color and blend_colors compute each output channel as the
\* truncation toward zero (not rounding) of c1*(1-t) + c2*t, with t first
\* clamped to [0,1]; consequently both functions return the same color for
\* the same arguments, every output channel lies between the two input
\* channel values, and t < 0 behaves as t = 0 and t > 1 as t = 1.
C20_TruncatedBetweenInputs ==
    pc = "blended" =>
        /\ results[1] = results[2]
        /\ \A ch \in Channels :
              /\ results[1][ch] >= Min2(given.a[ch], given.b[ch])
              /\ results[1][ch] <= Max2(given.a[ch], given.b[ch])
        /\ given.t.neg =>
              results[1] = lerp_color_f32(given.a, given.b, Factor(FALSE, 0, 0))
        /\ FxLeq(FxOne, Fx(given.t.hi, given.t.lo)) /\ ~given.t.neg =>
              results[1] = lerp_color_f32(given.a, given.b, Factor(FALSE, 2048, 0))

\* C20, as it holds: both functions return the same color; every output
\* channel is the truncation of the f32 value of c1*(1-t) + c2*t, which is
\* within the rounding error of the exact value, so the channel is at most
\* the greater input channel and at least the smaller one minus 1; t < 0
\* behaves as t = 0 and t > 1 as t = 1.
C20_TruncatedWithinOne ==
    pc = "blended" =>
        /\ results[1] = results[2]
        /\ \A ch \in Channels :
              /\ results[1][ch] >= Min2(given.a[ch], given.b[ch]) - 1
              /\ results[1][ch] <= Max2(given.a[ch], given.b[ch])
              /\ FxLeq(FxOfByte(results[1][ch]),
                       FxAdd(ExactChannel(given.a[ch], given.b[ch]), RoundingSlack))
              /\ FxLeq(ExactChannel(given.a[ch], given.b[ch]),
                       FxAdd(FxOfByte(results[1][ch] + 1), RoundingSlack))
        /\ given.t.neg =>
              results[1] = lerp_color_f32(given.a, given.b, Factor(FALSE, 0, 0))
        /\ FxLeq(FxOne, Fx(given.t.hi, given.t.lo)) /\ ~given.t.neg =>
              results[1] = lerp_color_f32(given.a, given.b, Factor(FALSE, 2048, 0))

\* both functions blended two colors of equal blue channel 3 at t = 0.04 and
\* returned the blue channel 2
C20_Witness ==
    /\ pc = "blended"
    /\ given.t = Factor(FALSE, 81, 964688)
    /\ given.a.b = 3
    /\ given.b.b = 3
    /\ results[1].b = 2
    /\ results[2].b = 2

(***************************************************************************)
(* Properties of the Starfield and RingedPlanet shaders.                   *)
(***************************************************************************)
\* C21: the Starfield shader returns, for every fragment and every uniforms
\* value, one constant color, and that constant is the background color of
\* the framebuffer it is drawn into.
C21_StarfieldIsBackground ==
    (pc = "shaded" /\ given.shader_type = "Starfield") =>
        /\ results[1] = starfield_shader(given.fragment, given.uniforms)
        /\ \A f \in Fragments, u \in ShaderUniforms :
              starfield_shader(f, u) = results[1]
        /\ to_hex(results[1]) = framebuffer.background_color

\* the Starfield shader was called and returned black, which is not the
\* background color of the framebuffer
C21_Witness ==
    /\ pc = "shaded"
    /\ given.shader_type = "Starfield"
    /\ to_hex(results[1]) = 0
    /\ framebuffer.background_color = BACKGROUND

\* the ring pattern of a fragment: (sin(30 * distance) * 0.5 + 0.5)^2
RingPattern(fragment) ==
    LET position == fragment.vertex_position
        distance_from_center ==
            Sqrt(position.x * position.x + position.z * position.z)
        s == (Sin(distance_from_center * 30) \div 2) + Scale \div 2
    IN  (s * s) \div Scale

\* the squared XZ distance of a fragment is below 1.1^2 or above 1.4^2
OutsideBand(fragment) ==
    LET position == fragment.vertex_position
        d2 == position.x * position.x + position.z * position.z
    IN  d2 * 100 < 121 * Scale * Scale \/ d2 * 100 > 196 * Scale * Scale

\* C22: the RingedPlanet shader returns the background color, independent
\* of time and noise, for every fragment whose model-space XZ distance from
\* the origin is below 1.1 or above 1.4, and also for fragments inside the
\* band whose ring pattern value is below 0.4.
C22_RingsTransparentIsBackground ==
    (pc = "shaded" /\ given.shader_type = "RingedPlanet"
     /\ (OutsideBand(given.fragment) \/ RingPattern(given.fragment) < 4)) =>
        /\ \A u \in ShaderUniforms :
              rings_shader(given.fragment, u) = results[1]
        /\ to_hex(results[1]) = framebuffer.background_color

\* the RingedPlanet shader was called on a fragment at the origin, inside
\* the inner radius, and returned black
C22_Witness ==
    /\ pc = "shaded"
    /\ given.shader_type = "RingedPlanet"
    /\ OutsideBand(given.fragment)
    /\ to_hex(results[1]) = 0
    /\ framebuffer.background_color = BACKGROUND

\* what starfield_shader does: it returns black, 0x000000, for every
\* fragment and every uniforms value
C21_StarfieldIsBlack ==
    (pc = "shaded" /\ given.shader_type = "Starfield") =>
        /\ to_hex(results[1]) = 0
        /\ \A f \in Fragments, u \in ShaderUniforms :
              to_hex(starfield_shader(f, u)) = 0

\* what rings_shader does outside the band and in the gaps of the ring
\* pattern: it returns black, 0x000000, at every time
C22_RingsTransparentIsBlack ==
    (pc = "shaded" /\ given.shader_type = "RingedPlanet"
     /\ (OutsideBand(given.fragment) \/ RingPattern(given.fragment) < 4)) =>
        /\ to_hex(results[1]) = 0
        /\ \A u \in ShaderUniforms :
              to_hex(rings_shader(given.fragment, u)) = 0

(***************************************************************************)
(* Orbit rings in the frame loop.                                          *)
(***************************************************************************)
\* the pixel a point call addresses
CallPixel(pcall) == pcall.y * Width + pcall.x

\* C23: orbit rings are rendered last in a frame, after all bodies and the
\* spaceship, so that they are on top: every in-bounds orbit-ring fragment
\* determines the color of its pixel, whatever was drawn there earlier.
C23_OrbitOnTop ==
    [][(FrameOrbitStep /\ point_call'.fn = "point") =>
          framebuffer'.buffer[CallPixel(point_call')] =
              OrbitColor(OrbitRingColor)]_vars

\* what render_orbit_lines does: an in-bounds orbit-ring fragment sets its
\* pixel only when it is nearer than the depth stored there, and otherwise
\* leaves the color and the depth of the pixel as they were
C23_OrbitDepthTested ==
    [][(FrameOrbitStep /\ point_call'.fn = "point") =>
          LET i == CallPixel(point_call')
          IN  IF point_call'.depth < framebuffer.zbuffer[i]
              THEN /\ framebuffer'.buffer[i] = OrbitColor(OrbitRingColor)
                   /\ framebuffer'.zbuffer[i] = point_call'.depth
              ELSE /\ framebuffer'.buffer[i] = framebuffer.buffer[i]
                   /\ framebuffer'.zbuffer[i] = framebuffer.zbuffer[i]]_vars

\* an orbit-ring fragment was processed on a pixel that a body or the ship
\* had drawn nearer, and the pixel kept that earlier color
C23_Witness ==
    /\ pc = "orbits"
    /\ point_call.fn = "point"
    /\ framebuffer.current_color = OrbitColor(OrbitRingColor)
    /\ framebuffer.zbuffer[CallPixel(point_call)] < point_call.depth
    /\ framebuffer.buffer[CallPixel(point_call)] # OrbitColor(OrbitRingColor)
    /\ framebuffer.buffer[CallPixel(point_call)] # framebuffer.background_color

(***************************************************************************)
(* The depth buffer between two clears.                                    *)
(***************************************************************************)
\* C24: between two clear() calls the stored depth of every pixel never
\* increases, and after any sequence of point writes it equals the minimum
\* of the far sentinel and all depths written to that pixel; a pixel whose
\* depth is still the far sentinel still holds the background color.
C24_DepthIsMinimum ==
    /\ [](pc = "order" =>
            \A i \in Pixels(framebuffer) :
               /\ framebuffer.zbuffer[i] =
                     Min2(Infinity, MinDepthAt(writes \ pending, i))
               /\ framebuffer.zbuffer[i] = Infinity =>
                     framebuffer.buffer[i] = framebuffer.background_color)
    /\ [][\A i \in Pixels(framebuffer) :
             framebuffer'.zbuffer[i] <= framebuffer.zbuffer[i]]_vars

\* three writes were issued since the clear: two to one pixel, the farther
\* one last, which left the nearer depth in place, and none to another
\* pixel, which is still at the far sentinel and the background color
C24_Witness ==
    /\ pc = "order"
    /\ Cardinality(writes \ pending) = 3
    /\ \E i, j \in Pixels(framebuffer) :
          /\ Cardinality({w.depth : w \in WritesAt(writes \ pending, i)}) = 2
          /\ framebuffer.zbuffer[i] = 1
          /\ framebuffer.current_color # framebuffer.buffer[i]
          /\ WritesAt(writes \ pending, j) = {}
          /\ framebuffer.zbuffer[j] = Infinity
          /\ framebuffer.buffer[j] = BACKGROUND

(***************************************************************************)
(* The mesh generators: create_sphere (sphere.rs), OrbitRing::get_vertices *)
(* (orbit.rs) and the two models of Spaceship::new (spaceship.rs).  A      *)
(* position is kept as the expression that computes it; only its place in  *)
(* the vertex list matters here.                                           *)
(***************************************************************************)
MaxSegments == 3
MaxRings == 3
MaxOrbitSegments == 26
MaxFaces == 2

\* Vertex::new(position, normal, tex_coords), tex_coords in tenths
Vertex_new(position, normal, u, v) ==
    [position |-> position, normal |-> normal, tex_coords |-> [x |-> u, y |-> v]]

\* spherical_to_cartesian(radius, theta, phi), theta = ring / rings * PI and
\* phi = segment / segments * 2 PI
spherical_to_cartesian(radius, ring, rings, segment, segments) ==
    [radius |-> radius, theta |-> <<ring, rings>>, phi |-> <<segment, segments>>]

\* the two triangles create_sphere pushes for one quad
SphereQuad(radius, segments, rings, ring, segment) ==
    LET v1 == spherical_to_cartesian(radius, ring, rings, segment, segments)
        v2 == spherical_to_cartesian(radius, ring, rings, segment + 1, segments)
        v3 == spherical_to_cartesian(radius, ring + 1, rings, segment, segments)
        v4 == spherical_to_cartesian(radius, ring + 1, rings, segment + 1, segments)
        n1 == [normalize |-> v1]
        n2 == [normalize |-> v2]
        n3 == [normalize |-> v3]
        n4 == [normalize |-> v4]
    IN  << Vertex_new(v1, n1, 0, 0), Vertex_new(v2, n2, Scale, 0),
           Vertex_new(v3, n3, 0, Scale),
           Vertex_new(v2, n2, Scale, 0), Vertex_new(v4, n4, Scale, Scale),
           Vertex_new(v3, n3, 0, Scale) >>

\* for segment in 0..segments
RECURSIVE SphereSegmentLoop(_, _, _, _, _)
SphereSegmentLoop(radius, segments, rings, ring, segment) ==
    IF segment >= segments THEN <<>>
    ELSE SphereQuad(radius, segments, rings, ring, segment)
         \o SphereSegmentLoop(radius, segments, rings, ring, segment + 1)

\* for ring in 0..rings
RECURSIVE SphereRingLoop(_, _, _, _)
SphereRingLoop(radius, segments, rings, ring) ==
    IF ring >= rings THEN <<>>
    ELSE SphereSegmentLoop(radius, segments, rings, ring, 0)
         \o SphereRingLoop(radius, segments, rings, ring + 1)

create_sphere(radius, segments, rings) ==
    SphereRingLoop(radius, segments, rings, 0)

\* OrbitRing::new: 200 segments, dashed; other segment counts and solid
\* rings are reached through the public fields
OrbitRing_new(radius, segments, dashed) ==
    [radius |-> radius, segments |-> segments, dashed |-> dashed]

\* OrbitQuad pushing the four corners of the quad once each
OrbitQuad_corners(self, i) ==
    LET up == <<0, Scale, 0>>
        corner(k, side) == [radius |-> self.radius, angle |-> <<k, self.segments>>,
                            side |-> side]
    IN  << Vertex_new(corner(i, 1), up, 0, 0), Vertex_new(corner(i, -1), up, Scale, 0),
           Vertex_new(corner(i + 1, -1), up, 5, Scale),
           Vertex_new(corner(i + 1, 1), up, 5, Scale) >>

\* the two triangles get_vertices pushes for one visible segment
OrbitQuad(self, i) ==
    LET up == <<0, Scale, 0>>
        corner(k, side) == [radius |-> self.radius, angle |-> <<k, self.segments>>,
                            side |-> side]
        v1 == corner(i, 1)
        v2 == corner(i, -1)
        v3 == corner(i + 1, -1)
        v4 == corner(i + 1, 1)
    IN  << Vertex_new(v1, up, 0, 0), Vertex_new(v2, up, Scale, 0),
           Vertex_new(v3, up, 5, Scale),
           Vertex_new(v1, up, 0, 0), Vertex_new(v3, up, Scale, 0),
           Vertex_new(v4, up, 5, Scale) >>

\* for i in 0..self.segments, skipping the third group of eight when dashed
RECURSIVE OrbitSegmentLoop(_, _)
OrbitSegmentLoop(self, i) ==
    IF i >= self.segments THEN <<>>
    ELSE LET dash_pattern == (i \div 8) % 3
         IN  IF self.dashed /\ dash_pattern = 2
             THEN OrbitSegmentLoop(self, i + 1)
             ELSE OrbitQuad(self, i) \o OrbitSegmentLoop(self, i + 1)

get_vertices(self) == OrbitSegmentLoop(self, 0)

\* the fifteen positions of the fallback ship, in tenths
create_fallback_model ==
    LET ship_vertices ==
            << <<0, 0, 5>>, <<-2, -1, -3>>, <<2, -1, -3>>,
               <<0, 0, 5>>, <<2, -1, -3>>, <<0, 1, -3>>,
               <<0, 0, 5>>, <<0, 1, -3>>, <<-2, -1, -3>>,
               <<-2, -1, -3>>, <<-4, 0, -5>>, <<0, 1, -3>>,
               <<2, -1, -3>>, <<0, 1, -3>>, <<4, 0, -5>> >>
    IN  [k \in 1..Len(ship_vertices) |->
            Vertex_new(ship_vertices[k], <<0, Scale, 0>>, 0, 0)]

\* for face in &model.faces; an index past the end of model.vertices panics
\* and nothing is returned
RECURSIVE FaceLoop(_, _)
FaceLoop(model, k) ==
    IF k > Len(model.faces) THEN [panicked |-> FALSE, vertices |-> <<>>]
    ELSE LET face == model.faces[k]
             rest == FaceLoop(model, k + 1)
         IN  IF rest.panicked \/ \E j \in 1..3 : face[j] >= Len(model.vertices)
             THEN [panicked |-> TRUE, vertices |-> <<>>]
             ELSE LET v0 == model.vertices[face[1] + 1]
                      v1 == model.vertices[face[2] + 1]
                      v2 == model.vertices[face[3] + 1]
                      normal == [normalize |-> [cross |-> <<v0, v1, v2>>]]
                  IN  [panicked |-> FALSE,
                       vertices |-> << Vertex_new(v0, normal, 0, 0),
                                       Vertex_new(v1, normal, Scale, 0),
                                       Vertex_new(v2, normal, 5, Scale) >>
                                    \o rest.vertices]

convert_model_to_vertices(model) == FaceLoop(model, 1)

\* the positions of the models Model::load_obj hands over
ModelVertices == << <<0, 0, 0>>, <<Scale, 0, 0>> >>

\* face indices: those of the model's vertices and one past their end
ModelFaces == [1..3 -> 0..Len(ModelVertices)]

InitMesh ==
    /\ pc = "mesh"
    /\ \/ \E segments \in 0..MaxSegments, rings \in 0..MaxRings :
             given = [fn |-> "create_sphere", radius |-> Scale,
                      segments |-> segments, rings |-> rings]
       \/ \E segments \in 0..MaxOrbitSegments, dashed \in BOOLEAN :
             given = [fn |-> "get_vertices",
                      self |-> OrbitRing_new(3 * Scale, segments, dashed)]
       \/ given = [fn |-> "Spaceship::new", loaded |-> FALSE,
                   model |-> [vertices |-> <<>>, faces |-> <<>>]]
       \/ \E n \in 0..MaxFaces : \E faces \in [1..n -> ModelFaces] :
             given = [fn |-> "Spaceship::new", loaded |-> TRUE,
                      model |-> [vertices |-> ModelVertices, faces |-> faces]]
    /\ args = given
    /\ results = <<>>
    /\ IdlePipeline

\* let vertex_arrays = create_sphere(1.0, 20, 15)
CallCreateSphere ==
    /\ pc = "mesh"
    /\ args.fn = "create_sphere"
    /\ results' = <<create_sphere(args.radius, args.segments, args.rings)>>
    /\ pc' = "generated"
    /\ UNCHANGED <<framebuffer, body_index, orbit_index, call, show_orbits,
                   draws, point_call, frame_log, writes, pending, writers,
                   vertex_array, uniforms, triangles, given, args>>

\* let orbit_vertices = orbit_ring.get_vertices()
CallGetVertices ==
    /\ pc = "mesh"
    /\ args.fn = "get_vertices"
    /\ results' = <<get_vertices(args.self)>>
    /\ pc' = "generated"
    /\ UNCHANGED <<framebuffer, body_index, orbit_index, call, show_orbits,
                   draws, point_call, frame_log, writes, pending, writers,
                   vertex_array, uniforms, triangles, given, args>>

\* Spaceship::new: the converted model when load_obj succeeds, else the fallback
Spaceship_new ==
    /\ pc = "mesh"
    /\ args.fn = "Spaceship::new"
    /\ LET converted == convert_model_to_vertices(args.model)
       IN  IF ~args.loaded
           THEN results' = <<create_fallback_model>> /\ pc' = "generated"
           ELSE IF converted.panicked
           THEN results' = <<>> /\ pc' = "panicked"
           ELSE results' = <<converted.vertices>> /\ pc' = "generated"
    /\ UNCHANGED <<framebuffer, body_index, orbit_index, call, show_orbits,
                   draws, point_call, frame_log, writes, pending, writers,
                   vertex_array, uniforms, triangles, given, args>>

NextMesh ==
    \/ CallCreateSphere
    \/ CallGetVertices
    \/ Spaceship_new

SpecMesh == InitMesh /\ [][NextMesh]_vars

\* the segment indices get_vertices does not skip
VisibleSegments(self) ==
    {i \in 0..(self.segments - 1) : ~self.dashed \/ (i \div 8) % 3 # 2}

\* the number of vertices the claim gives for a generator call
ExpectedVertices(g) ==
    CASE g.fn = "create_sphere" -> 6 * g.segments * g.rings
      [] g.fn = "get_vertices" -> 6 * Cardinality(VisibleSegments(g.self))
      [] g.fn = "Spaceship::new" ->
            IF g.loaded THEN 3 * Len(g.model.faces) ELSE 3 * 5

\* C25: every mesh generator hands render a triangle list whose length is a
\* multiple of 3: create_sphere returns exactly 6 * segments * rings
\* vertices, get_vertices six for every segment index i with
\* (i / 8) % 3 != 2 (for every segment when not dashed), and the fallback
\* and the converted ship models three per face; primitive assembly then
\* groups all of them.
C25_TriangleLists ==
    pc = "generated" =>
        /\ Len(results[1]) = ExpectedVertices(given)
        /\ Len(results[1]) % 3 = 0
        /\ 3 * Len(PrimitiveAssembly(results[1])) = Len(results[1])

\* a dashed ring of 26 segments returned the 6 * 18 vertices of segments
\* 0..15 and 24..25, having skipped 16..23
C25_Witness ==
    /\ pc = "generated"
    /\ given.fn = "get_vertices"
    /\ given.self.dashed
    /\ given.self.segments = 26
    /\ Len(results[1]) = 108
    /\ results[1][97].position.angle[1] = 24

(***************************************************************************)
(* main.rs: the warp animation of the camera.  delta_time is counted in    *)
(* ticks, progress in parts of WarpSteps and smooth_t in parts of          *)
(* WarpUnit, so that progress, smooth_t and camera.center are exact.       *)
(***************************************************************************)
duration == 2
TicksPerSecond == 2
MaxDeltaTime == 2
MaxWarps == 2

\* progress 1.0, and the unit of the positions: smooth_t = 1.0
WarpSteps == duration * TicksPerSecond
WarpUnit == WarpSteps * WarpSteps * WarpSteps

None == [some |-> FALSE]

\* the floor square root between lo and hi, by bisection
RECURSIVE RootBetween(_, _, _)
RootBetween(n, lo, hi) ==
    IF lo >= hi THEN lo
    ELSE CHOOSE r \in {IF mid * mid <= n THEN RootBetween(n, mid, hi)
                       ELSE RootBetween(n, lo, mid - 1) :
                       mid \in {(lo + hi + 1) \div 2}} : TRUE

\* Vec3::magnitude of a difference of positions
magnitude(dx, dy, dz) ==
    CHOOSE r \in {RootBetween(n, 0, hi) :
                    n \in {dx * dx + dy * dy + dz * dz},
                    hi \in {Abs(dx) + Abs(dy) + Abs(dz)}} : TRUE

\* Camera::new(eye, center, up) of RenderContext::new
WarpCamera ==
    [eye |-> Vec3(0, 3 * WarpUnit, 8 * WarpUnit), center |-> Vec3(0, 0, 0),
     eye_is_nan |-> FALSE]

\* the positions handle_input warps to: the Sun, the rocky planet, the gas giant
WarpTargets ==
    {Vec3(0, 0, 0), Vec3(3 * WarpUnit, 0, 0), Vec3(6 * WarpUnit, 0, 0)}

start_warp(self, target_position) ==
    [self EXCEPT !.warp_animation =
        [some |-> TRUE, from |-> self.camera.center, to |-> target_position,
         progress |-> 0]]

\* update_warp leaving the interpolated center when the animation ends
update_warp_short(self, delta_time) ==
    IF ~self.warp_animation.some THEN self
    ELSE IF self.warp_animation.progress + delta_time >= WarpSteps
    THEN [self EXCEPT !.warp_animation = None]
    ELSE [self EXCEPT !.warp_animation.progress = @ + delta_time]

update_warp(self, delta_time) ==
    IF ~self.warp_animation.some THEN self
    ELSE
    LET warp == self.warp_animation
        progress == warp.progress + delta_time
        t == progress
        \* t * t * (3.0 - 2.0 * t), in parts of WarpUnit
        smooth_t == t * t * (3 * WarpSteps - 2 * t)
        along(a, b) == a + ((b - a) * smooth_t) \div WarpUnit
        center == Vec3(along(warp.from.x, warp.to.x), along(warp.from.y, warp.to.y),
                       along(warp.from.z, warp.to.z))
        \* 1.0 + (t * (1.0 - t) * 4.0) * 5.0, in parts of WarpSteps squared
        zoom_factor == WarpSteps * WarpSteps + 20 * t * (WarpSteps - t)
        dx == center.x - self.camera.eye.x
        dy == center.y - self.camera.eye.y
        dz == center.z - self.camera.eye.z
        length == magnitude(dx, dy, dz)
        back(c, d) ==
            c - (((d * WarpUnit) \div length) * 8 * zoom_factor)
                \div (WarpSteps * WarpSteps)
    IN  IF progress >= WarpSteps
        THEN [self EXCEPT !.camera.center = warp.to, !.warp_animation = None]
        ELSE IF length = 0 \/ self.camera.eye_is_nan
        THEN \* normalize of the zero vector: every component of eye is NaN
             [self EXCEPT !.camera.center = center, !.camera.eye_is_nan = TRUE,
                          !.warp_animation.progress = progress]
        ELSE [self EXCEPT !.camera.center = center,
                          !.camera.eye = Vec3(back(center.x, dx), back(center.y, dy),
                                              back(center.z, dz)),
                          !.warp_animation.progress = progress]

\* RenderContext::new: no animation; nothing captured yet
InitWarp ==
    /\ pc = "warp"
    /\ args = [camera |-> WarpCamera, warp_animation |-> None]
    /\ given = [warps |-> 0, target |-> Vec3(0, 0, 0)]
    /\ results = <<>>
    /\ IdlePipeline

\* handle_input: a focus key is pressed while no animation runs
StartWarp ==
    /\ pc = "warp"
    /\ ~args.warp_animation.some
    /\ given.warps < MaxWarps
    /\ \E target \in WarpTargets :
          /\ args' = start_warp(args, target)
          /\ given' = [warps |-> given.warps + 1, target |-> target]
    /\ results' = <<>>
    /\ UNCHANGED <<framebuffer, pc, body_index, orbit_index, call, show_orbits,
                   draws, point_call, frame_log, writes, pending, writers,
                   vertex_array, uniforms, triangles>>

\* context.update_warp(delta_time) of one frame; results keeps the progress
\* each call of the running animation leaves
UpdateWarp ==
    /\ pc = "warp"
    /\ \E delta_time \in 1..MaxDeltaTime :
          /\ args' = update_warp(args, delta_time)
          /\ results' = IF args.warp_animation.some
                        THEN Append(results, args.warp_animation.progress + delta_time)
                        ELSE results
    /\ UNCHANGED <<framebuffer, pc, body_index, orbit_index, call, show_orbits,
                   draws, point_call, frame_log, writes, pending, writers,
                   vertex_array, uniforms, triangles, given>>

NextWarp ==
    \/ StartWarp
    \/ UpdateWarp

SpecWarp == InitWarp /\ [][NextWarp]_vars

\* the frame loop calls update_warp in every frame
SpecWarpFair == SpecWarp /\ WF_vars(UpdateWarp)

\* C26: after start_warp(target), repeated update_warp calls with positive
\* delta_time keep progress non-decreasing and eventually end the
\* animation: warp_animation becomes None and camera.center equals exactly
\* the target captured by start_warp; while no warp is active, update_warp
\* changes neither the camera nor the animation state.
C26_WarpEnds ==
    /\ [](pc = "warp" =>
            /\ \A i \in 1..Len(results) :
                  results[i] >= (IF i = 1 THEN 0 ELSE results[i - 1])
            /\ ~args.warp_animation.some =>
                  /\ \A delta_time \in 1..MaxDeltaTime :
                        update_warp(args, delta_time) = args
                  /\ given.warps > 0 => args.camera.center = given.target)
    /\ (pc = "warp" /\ args.warp_animation.some)
          ~> (~args.warp_animation.some /\ args.camera.center = given.target)

\* an animation to the gas giant has ended after three update_warp calls
\* with the camera's center on the target
C26_Witness ==
    /\ pc = "warp"
    /\ ~args.warp_animation.some
    /\ given.target = Vec3(6 * WarpUnit, 0, 0)
    /\ Len(results) = 3
    /\ args.camera.center = given.target
    /\ ~args.camera.eye_is_nan

(***************************************************************************)
(* main.rs: the orbit animation of the frame loop.  Frames last a whole    *)
(* number of seconds; angles, positions and times are in tenths, speeds    *)
(* in hundredths per second.                                               *)
(***************************************************************************)
MaxFrames == 4
MaxFrameSeconds == 2

\* f32::cos through the sine: a quarter period is 1.6 in tenths
Cos(a) == Sin(a + 16)

\* CelestialBody::new(..).with_orbit(radius, speed).with_rotation_speed(..)
CelestialBody_new(x, orbit_radius, orbit_speed, rotation_speed) ==
    [position |-> Vec3(x, 0, 0), rotation |-> Vec3(0, 0, 0),
     rotation_speed |-> Vec3(0, rotation_speed, 0), orbit_speed |-> orbit_speed,
     orbit_radius |-> orbit_radius, orbit_angle |-> 0, time |-> 0]

\* RenderContext::new: Sun, rocky planet, moon, gas giant
OrbitBodies ==
    << CelestialBody_new(0, 0, 0, 10),
       CelestialBody_new(30, 30, 50, 50),
       CelestialBody_new(38, 8, 120, 30),
       CelestialBody_new(60, 60, 25, 80) >>

\* value += speed * delta_time
Turned(value, speed, delta_time) == value + (speed * delta_time) \div Scale

\* self.rotation += self.rotation_speed * delta_time
Rotated(body, delta_time) ==
    Vec3(Turned(body.rotation.x, body.rotation_speed.x, delta_time),
         Turned(body.rotation.y, body.rotation_speed.y, delta_time),
         Turned(body.rotation.z, body.rotation_speed.z, delta_time))

CelestialBody_update(self, delta_time) ==
    LET orbit_angle == Turned(self.orbit_angle, self.orbit_speed, delta_time)
        moved ==
            IF self.orbit_radius > 0
            THEN [self EXCEPT
                    !.orbit_angle = orbit_angle,
                    !.position.x = (Cos(orbit_angle) * self.orbit_radius) \div Scale,
                    !.position.z = (Sin(orbit_angle) * self.orbit_radius) \div Scale]
            ELSE self
    IN  [moved EXCEPT !.rotation = Rotated(self, delta_time),
                      !.time = @ + delta_time * Scale]

\* the arm of the match for body i (0-based), planet_pos read before the loop
UpdatedBody(bodies, i, planet_pos, delta_time) ==
    LET body == bodies[i + 1]
        orbit_angle == Turned(body.orbit_angle, body.orbit_speed, delta_time)
    IN  CASE i = 0 ->
               [body EXCEPT !.rotation = Rotated(body, delta_time),
                            !.time = @ + delta_time * Scale]
          [] i = 2 ->
               [body EXCEPT
                  !.orbit_angle = orbit_angle,
                  !.position.x =
                      planet_pos.x + (Cos(orbit_angle) * body.orbit_radius) \div Scale,
                  !.position.z =
                      planet_pos.z + (Sin(orbit_angle) * body.orbit_radius) \div Scale,
                  !.rotation = Rotated(body, delta_time),
                  !.time = @ + delta_time * Scale]
          [] OTHER -> CelestialBody_update(body, delta_time)

\* UpdateBodies without the test of orbit_enabled
UpdateBodies_always(context, delta_time) ==
    LET planet_pos == IF Len(context.bodies) > 1 THEN context.bodies[2].position
                      ELSE Vec3(0, 0, 0)
    IN  [context EXCEPT
           !.time = @ + delta_time * Scale,
           !.bodies = [k \in 1..Len(context.bodies) |->
                          UpdatedBody(context.bodies, k - 1, planet_pos, delta_time)]]

\* main: if orbit_enabled { context.time += delta_time; ... }
UpdateBodies(context, delta_time) ==
    IF context.orbit_enabled
    THEN LET planet_pos == IF Len(context.bodies) > 1 THEN context.bodies[2].position
                           ELSE Vec3(0, 0, 0)
         IN  [context EXCEPT
                !.time = @ + delta_time * Scale,
                !.bodies = [k \in 1..Len(context.bodies) |->
                               UpdatedBody(context.bodies, k - 1, planet_pos,
                                           delta_time)]]
    ELSE context

\* the time of the Uniforms of every body's draw and of the ship's draw
ShaderTimes(context) ==
    [k \in 1..Len(context.bodies) |-> context.bodies[k].time] \o <<context.time>>

InitOrbit ==
    /\ pc = "orbit_input"
    /\ args = [orbit_enabled |-> TRUE, time |-> 0, bodies |-> OrbitBodies]
    /\ given = [frames |-> 0]
    /\ results = <<>>
    /\ IdlePipeline

\* handle_input: Space toggles the orbit animation
ToggleOrbit ==
    /\ pc = "orbit_input"
    /\ given.frames < MaxFrames
    /\ \E space \in BOOLEAN :
          args' = IF space THEN [args EXCEPT !.orbit_enabled = ~@] ELSE args
    /\ given' = [frames |-> given.frames + 1]
    /\ pc' = "orbit_update"
    /\ UNCHANGED <<framebuffer, body_index, orbit_index, call, show_orbits,
                   draws, point_call, frame_log, writes, pending, writers,
                   vertex_array, uniforms, triangles, results>>

\* the update of the bodies in a frame that took delta_time
UpdateFrame ==
    /\ pc = "orbit_update"
    /\ \E delta_time \in 1..MaxFrameSeconds :
          args' = UpdateBodies(args, delta_time)
    /\ pc' = "orbit_render"
    /\ UNCHANGED <<framebuffer, body_index, orbit_index, call, show_orbits,
                   draws, point_call, frame_log, writes, pending, writers,
                   vertex_array, uniforms, triangles, given, results>>

\* the draws of the frame; results keeps the times handed to the shaders
RenderFrame ==
    /\ pc = "orbit_render"
    /\ results' = ShaderTimes(args)
    /\ pc' = "orbit_input"
    /\ UNCHANGED <<framebuffer, body_index, orbit_index, call, show_orbits,
                   draws, point_call, frame_log, writes, pending, writers,
                   vertex_array, uniforms, triangles, given, args>>

NextOrbit ==
    \/ ToggleOrbit
    \/ UpdateFrame
    \/ RenderFrame

SpecOrbit == InitOrbit /\ [][NextOrbit]_vars

\* C27: while the orbit animation is toggled off, no frame of the main
\* loop changes any body's position, rotation, orbit_angle or time, nor
\* context.time, so the time passed to every body's and the ship's shader
\* stays constant until the animation is toggled back on.
C27_PausedFramesKeepTime ==
    [][(~args.orbit_enabled /\ ~args'.orbit_enabled) =>
          /\ args'.bodies = args.bodies
          /\ args'.time = args.time
          /\ results # <<>> => results' = results
          /\ results' \in {<<>>, ShaderTimes(args)}]_vars

\* two frames were drawn with the animation off after one with it on, and
\* the shaders were handed the times of the frame before the pause
C27_Witness ==
    /\ pc = "orbit_input"
    /\ given.frames = 3
    /\ ~args.orbit_enabled
    /\ args.time > 0
    /\ results = ShaderTimes(args)
    /\ args.bodies[2].position # OrbitBodies[2].position

(***************************************************************************)
(* spaceship.rs: Spaceship::rotate.  Angles are in hundredths of a radian. *)
(***************************************************************************)
MaxRotations == 3

\* 2.0 * PI
TwoPi == 628

\* delta_y: the +-2.0 * 0.016 of handle_input, half and full turns, and
\* turns of 7 and 13 radians
RotateDeltas == {3, -3, 314, -314, TwoPi, -TwoPi, 700, -700, 1300, -1300}

rotate(self, delta_y) ==
    LET y == self.rotation.y + delta_y
    IN  [self EXCEPT !.rotation.y =
            IF y > TwoPi THEN y - TwoPi
            ELSE IF y < 0 THEN y + TwoPi
            ELSE y]

\* Spaceship::new: rotation (0, 0, 0)
InitRotate ==
    /\ pc = "rotate"
    /\ given = [rotation |-> Vec3(0, 0, 0)]
    /\ args = given
    /\ results = <<>>
    /\ IdlePipeline

\* context.spaceship.rotate(delta_y); results keeps the deltas of the calls
CallRotate ==
    /\ pc = "rotate"
    /\ Len(results) < MaxRotations
    /\ \E delta_y \in RotateDeltas :
          /\ args' = rotate(args, delta_y)
          /\ results' = Append(results, delta_y)
    /\ UNCHANGED <<framebuffer, pc, body_index, orbit_index, call, show_orbits,
                   draws, point_call, frame_log, writes, pending, writers,
                   vertex_array, uniforms, triangles, given>>

NextRotate == CallRotate

SpecRotate == InitRotate /\ [][NextRotate]_vars

\* C28: Spaceship::rotate keeps the rotation in the [0, 2 PI] range:
\* starting from rotation.y = 0, after any sequence of rotate(delta_y)
\* calls rotation.y satisfies 0 <= rotation.y <= 2 PI.
C28_RotationInRange ==
    pc = "rotate" => (0 <= args.rotation.y /\ args.rotation.y <= TwoPi)

\* what rotate does: it adds or subtracts one turn at most, so the rotation
\* stays in the range as long as no delta_y is larger than one turn, and
\* it changes rotation.y only
C28_InRangeForSmallTurns ==
    pc = "rotate" =>
        /\ (\A i \in 1..Len(results) : Abs(results[i]) <= TwoPi) =>
              (0 <= args.rotation.y /\ args.rotation.y <= TwoPi)
        /\ args.rotation.x = 0
        /\ args.rotation.z = 0

\* rotate(13.0) on the new ship left rotation.y at 13.0 - 2 PI, above 2 PI
C28_Witness ==
    /\ pc = "rotate"
    /\ results = <<1300>>
    /\ args.rotation.y = 1300 - TwoPi
    /\ args.rotation.y > TwoPi

(***************************************************************************)
(* spaceship.rs: the flight of the ship.  Positions and velocities are in  *)
(* hundredths, delta_time in tenths of a second.                           *)
(***************************************************************************)
MaxThrusts == 2
MaxShipDelta == 10

\* the frame time: frames of one second
ShipDeltas == {MaxShipDelta}

\* let boundary = 10.0
boundary == 1000

\* Spaceship::new: at (2, 0, 2), at rest, facing +z
Spaceship_start ==
    [position |-> Vec3(200, 0, 200), rotation |-> Vec3(0, 0, 0),
     velocity |-> Vec3(0, 0, 0)]

\* the factor applied to a component of a vector, in hundredths
Scaled(v, hundredths) == Quot(v * hundredths, 100)

Vec3Scaled(v, hundredths) ==
    Vec3(Scaled(v.x, hundredths), Scaled(v.y, hundredths), Scaled(v.z, hundredths))

\* forward = (sin(rotation.y), 0, cos(rotation.y)); rotation.y is 0 here
apply_thrust(self, thrust) ==
    [self EXCEPT !.velocity.z = @ + thrust]

OutOfBounds(position) == Abs(position.x) > boundary \/ Abs(position.z) > boundary

\* Spaceship_update without the bounce
Spaceship_update_free(self, delta_time) ==
    [self EXCEPT
       !.position = Vec3(self.position.x + Quot(self.velocity.x * delta_time, 10),
                         self.position.y + Quot(self.velocity.y * delta_time, 10),
                         self.position.z + Quot(self.velocity.z * delta_time, 10)),
       !.velocity = Vec3Scaled(self.velocity, 95)]

Spaceship_update(self, delta_time) ==
    LET position ==
            Vec3(self.position.x + Quot(self.velocity.x * delta_time, 10),
                 self.position.y + Quot(self.velocity.y * delta_time, 10),
                 self.position.z + Quot(self.velocity.z * delta_time, 10))
        dragged == Vec3Scaled(self.velocity, 95)
    IN  [self EXCEPT
           !.position = position,
           !.velocity = IF OutOfBounds(position) THEN Vec3Scaled(dragged, -50)
                        ELSE dragged]

InitShip ==
    /\ pc = "flight"
    /\ args = Spaceship_start
    /\ given = [thrusts |-> 0]
    /\ results = <<>>
    /\ IdlePipeline

\* context.spaceship.apply_thrust(thrust)
ApplyThrust ==
    /\ pc = "flight"
    /\ given.thrusts < MaxThrusts
    /\ \E thrust \in {100, 400, 820} : args' = apply_thrust(args, thrust)
    /\ given' = [thrusts |-> given.thrusts + 1]
    /\ UNCHANGED <<framebuffer, pc, body_index, orbit_index, call, show_orbits,
                   draws, point_call, frame_log, writes, pending, writers,
                   vertex_array, uniforms, triangles, results>>

\* context.spaceship.update(delta_time)
UpdateShip ==
    /\ pc = "flight"
    /\ \E delta_time \in ShipDeltas :
          args' = Spaceship_update(args, delta_time)
    /\ UNCHANGED <<framebuffer, pc, body_index, orbit_index, call, show_orbits,
                   draws, point_call, frame_log, writes, pending, writers,
                   vertex_array, uniforms, triangles, given, results>>

NextShip ==
    \/ ApplyThrust
    \/ UpdateShip

SpecShip == InitShip /\ [][NextShip]_vars

\* the frame loop calls update in every frame
SpecShipFair == SpecShip /\ WF_vars(UpdateShip)

\* C29: Spaceship::update keeps the ship within the +-10 boundary by
\* bouncing it back: whenever |position.x| > 10 or |position.z| > 10 after
\* an update, subsequent update calls without further thrust eventually
\* bring the position back inside the boundary.
C29_BounceBringsBack ==
    (pc = "flight" /\ given.thrusts = MaxThrusts /\ OutOfBounds(args.position))
        ~> ~OutOfBounds(args.position)

\* what update does outside the boundary: every call there reverses the
\* velocity and at least halves it, so the ship moves in and out by
\* shrinking steps
C29_BounceHalvesAndReverses ==
    [][(UpdateShip /\ OutOfBounds(args'.position)) =>
          /\ args'.velocity.z * args.velocity.z <= 0
          /\ 2 * Abs(args'.velocity.z) <= Abs(args.velocity.z)]_vars

\* the ship has come to rest outside the boundary
C29_Witness ==
    /\ pc = "flight"
    /\ given.thrusts = MaxThrusts
    /\ OutOfBounds(args.position)
    /\ args.velocity = Vec3(0, 0, 0)

(***************************************************************************)
(* spaceship.rs: the collision of the ship with a body, as the frame loop  *)
(* runs it.  Positions, radii and velocities are in hundredths.            *)
(***************************************************************************)
GridSteps == 4

\* position and scale of the Sun, the rocky planet, the moon, the gas giant
CollisionBodies ==
    { [position |-> Vec3(0, 0, 0), scale |-> 150],
      [position |-> Vec3(300, 0, 0), scale |-> 50],
      [position |-> Vec3(380, 0, 0), scale |-> 15],
      [position |-> Vec3(600, 0, 0), scale |-> 80] }

\* (self.position - body_position).magnitude(); NaN once the position is
Distance(self, body_position) ==
    magnitude(self.position.x - body_position.x, self.position.y - body_position.y,
              self.position.z - body_position.z)

\* a comparison with NaN is false
check_collision(self, body_position, body_radius) ==
    ~self.is_nan /\ Distance(self, body_position) < body_radius + 30

handle_collision(self, body_position) ==
    LET dx == self.position.x - body_position.x
        dy == self.position.y - body_position.y
        dz == self.position.z - body_position.z
        length == Distance(self, body_position)
    IN  IF length = 0
        THEN \* normalize of the zero vector: position and velocity are NaN
             [self EXCEPT !.is_nan = TRUE]
        ELSE [self EXCEPT
                !.velocity = Vec3(Quot(dx * 200, length), Quot(dy * 200, length),
                                  Quot(dz * 200, length)),
                !.position = Vec3(self.position.x + Quot(dx * 50, length),
                                  self.position.y + Quot(dy * 50, length),
                                  self.position.z + Quot(dz * 50, length))]

\* the ship anywhere on a grid around one of the bodies, in the plane y = 0
InitCollision ==
    /\ pc = "collision"
    /\ \E body \in CollisionBodies, i \in (-GridSteps)..GridSteps,
          j \in (-GridSteps)..GridSteps :
          given = [body |-> body,
                   ship |-> [position |-> Vec3(body.position.x + 50 * i, 0,
                                               body.position.z + 50 * j),
                             velocity |-> Vec3(0, 0, 0), is_nan |-> FALSE]]
    /\ args = given.ship
    /\ results = <<>>
    /\ IdlePipeline

\* if spaceship.check_collision(body.position, body.scale) { handle_collision }
CollisionStep ==
    /\ pc = "collision"
    /\ LET hit == check_collision(args, given.body.position, given.body.scale)
       IN  /\ results' = <<hit>>
           /\ args' = IF hit THEN handle_collision(args, given.body.position)
                      ELSE args
           /\ pc' = IF hit THEN "handled" ELSE "clear"
    /\ UNCHANGED <<framebuffer, body_index, orbit_index, call, show_orbits,
                   draws, point_call, frame_log, writes, pending, writers,
                   vertex_array, uniforms, triangles, given>>

\* check_collision for the same body right after handle_collision
CheckAgain ==
    /\ pc = "handled"
    /\ results' = Append(results,
                         check_collision(args, given.body.position, given.body.scale))
    /\ pc' = "rechecked"
    /\ UNCHANGED <<framebuffer, body_index, orbit_index, call, show_orbits,
                   draws, point_call, frame_log, writes, pending, writers,
                   vertex_array, uniforms, triangles, given, args>>

NextCollision ==
    \/ CollisionStep
    \/ CheckAgain

SpecCollision == InitCollision /\ [][NextCollision]_vars

\* the velocity has a positive component along the line from the body to
\* where the ship was
PointsAway ==
    /\ ~args.is_nan
    /\ args.velocity.x * (given.ship.position.x - given.body.position.x)
       + args.velocity.z * (given.ship.position.z - given.body.position.z) > 0

\* C30: handle_collision separates the ship from the body immediately:
\* whenever check_collision(body_position, body_radius) is true and
\* handle_collision(body_position) is then called, check_collision for the
\* same body is false right afterwards, and the new velocity points away
\* from the body.
C30_SeparatedAtOnce ==
    pc = "rechecked" => (results[2] = FALSE /\ PointsAway)

\* what handle_collision does: it moves the ship 0.5 farther from the
\* body's center and sets a velocity of 2 away from it, which ends the
\* collision when the ship was less than 0.2 inside the body's radius
C30_PushedByHalf ==
    (pc = "rechecked" /\ Distance(given.ship, given.body.position) > 0) =>
        /\ PointsAway
        /\ Abs(Distance(args, given.body.position)
               - (Distance(given.ship, given.body.position) + 50)) <= 2
        /\ Distance(given.ship, given.body.position) >= given.body.scale - 18
              => results[2] = FALSE

\* the ship was 1.0 from the center of the Sun, handle_collision moved it to
\* 1.5, and check_collision is still true
C30_Witness ==
    /\ pc = "rechecked"
    /\ given.body.scale = 150
    /\ given.ship.position = Vec3(0, 0, 100)
    /\ args.position = Vec3(0, 0, 150)
    /\ args.velocity = Vec3(0, 0, 200)
    /\ results = <<TRUE, TRUE>>

====
